---- MODULE Spec2Model ----
(***************************************************************************)
(* Portfolio analytics of web_app.py: the /api/portfolio/analysis handler  *)
(* (fetch per holding, outer join + forward fill + dropna, value curve,    *)
(* metrics, correlation, NaN cleaning) and the /api/portfolio overview.    *)
(*                                                                         *)
(* Floats are modelled as tagged values: an exact rational (k = "q"), NaN, *)
(* +-Infinity (one tag), a finite real whose exact value the model does    *)
(* not compute (k = "real": results of pow, sqrt and of a correlation that *)
(* is not exactly -1, 0 or 1), and JSON null.                              *)
(***************************************************************************)
EXTENDS Integers, Sequences, FiniteSets, TLC

(***************************************************************************)
(* Floating point values                                                   *)
(***************************************************************************)
Abs(n) == IF n < 0 THEN -n ELSE n

RECURSIVE GCD(_, _)
GCD(a, b) == IF b = 0 THEN a ELSE GCD(b, a % b)

\* the rational n/d in lowest terms, d > 0
Q(n, d) ==
    LET s == IF d < 0 THEN -1 ELSE 1
        g == GCD(Abs(n), Abs(d))
    IN  [k |-> "q", n |-> (s * n) \div g, d |-> (s * d) \div g]

Int2F(n) == [k |-> "q", n |-> n, d |-> 1]
Zero == Int2F(0)
One  == Int2F(1)
NaN    == [k |-> "nan",  n |-> 0, d |-> 1]
Inf    == [k |-> "inf",  n |-> 0, d |-> 1]
Real   == [k |-> "real", n |-> 0, d |-> 1]
Null   == [k |-> "null", n |-> 0, d |-> 1]

IsNaN(x)    == x.k = "nan"
IsInf(x)    == x.k = "inf"
IsNull(x)   == x.k = "null"
IsQ(x)      == x.k = "q"
IsNumber(x) == x.k \in {"q", "real"}

\* x != 0 as Python evaluates it on floats: NaN != 0 and inf != 0 are True
NonZero(x) == ~(IsQ(x) /\ x.n = 0)

FAdd(x, y) ==
    IF IsNaN(x) \/ IsNaN(y) THEN NaN
    ELSE IF IsInf(x) \/ IsInf(y) THEN Inf
    ELSE IF IsQ(x) /\ IsQ(y) THEN Q(x.n * y.d + y.n * x.d, x.d * y.d)
    ELSE Real

FNeg(x) == IF IsQ(x) THEN [x EXCEPT !.n = -x.n] ELSE x

FSub(x, y) == FAdd(x, FNeg(y))

FMul(x, y) ==
    IF IsNaN(x) \/ IsNaN(y) THEN NaN
    ELSE IF IsInf(x) \/ IsInf(y)
         THEN IF ~NonZero(x) \/ ~NonZero(y) THEN NaN ELSE Inf
    ELSE IF IsQ(x) /\ IsQ(y) THEN Q(x.n * y.n, x.d * y.d)
    ELSE IF ~NonZero(x) \/ ~NonZero(y) THEN Zero
    ELSE Real

\* IEEE division as numpy performs it: x/0 is +-inf, 0/0 is NaN, no exception
FDiv(x, y) ==
    IF IsNaN(x) \/ IsNaN(y) THEN NaN
    ELSE IF IsInf(x) THEN (IF IsInf(y) THEN NaN ELSE Inf)
    ELSE IF IsInf(y) THEN Zero
    ELSE IF ~NonZero(y) THEN (IF ~NonZero(x) THEN NaN ELSE Inf)
    ELSE IF IsQ(x) /\ IsQ(y) THEN Q(x.n * y.d, x.d * y.n)
    ELSE IF ~NonZero(x) THEN Zero
    ELSE Real

\* x < y on exact rationals
QLess(x, y) == x.n * y.d < y.n * x.d
QLeq(x, y)  == x.n * y.d <= y.n * x.d
QMax(x, y)  == IF QLess(x, y) THEN y ELSE x
QMin(x, y)  == IF QLess(y, x) THEN y ELSE x

(***************************************************************************)
(* Inputs: what portfolio_service.get_portfolio and                        *)
(* DataFetcher.get_stock_data can hand to the handlers                     *)
(***************************************************************************)
MaxDate == 12

RECURSIVE Pow2(_)
Pow2(e) == IF e = 0 THEN 1 ELSE 2 * Pow2(e - 1)

\* close price of a bar on date d, by the shape of the price history
Shape(sh, d) ==
    CASE sh = "flat"  -> 2
      [] sh = "zig"   -> IF d % 2 = 1 THEN 1 ELSE 2
      [] sh = "geo"   -> Pow2(d)
      [] sh = "dip"   -> IF d = MaxDate - 4 THEN 1 ELSE 2
      [] sh = "rise"  -> IF d < MaxDate - 3 THEN 1 ELSE 2
      [] sh = "scenA" -> 9 + d
      [] sh = "scenB" -> <<100, 90, 95, 105>>[d]

Shapes == {"flat", "zig", "geo", "dip", "rise"}

\* a fetched history: date -> close, one bar per date in first..last except
\* `gap`; the closes on the dates of nans were coerced to NaN by pd.to_numeric
SeriesOf(first, last, gap, nans, sh) ==
    [d \in {x \in first..last : x # gap} |->
        IF d \in nans THEN NaN ELSE Int2F(Shape(sh, d))]

\* get_stock_data returned None (it never returns an empty frame)
NoneDf == [d \in {} |-> NaN]

Ranges == {<<1, MaxDate>>, <<2, MaxDate>>, <<3, MaxDate>>, <<1, 2>>}

FetchResults ==
    {NoneDf}
    \cup {SeriesOf(r[1], r[2], 0, {}, sh) : r \in Ranges, sh \in Shapes}
    \cup {SeriesOf(1, MaxDate, 6, {}, sh) : sh \in Shapes}
    \cup {SeriesOf(1, MaxDate, 0, {1}, sh) : sh \in {"flat", "zig"}}
    \cup {SeriesOf(1, MaxDate, 0, {7}, "zig"), SeriesOf(1, 2, 0, {1, 2}, "flat")}

\* the histories of the two symbols of the worked scenario of the analysis
ScenarioResults(symbol) ==
    IF symbol = "A" THEN {SeriesOf(1, 4, 0, {}, "scenA")}
    ELSE {SeriesOf(1, 4, 0, {}, "scenB")}

\* DataFetcher.get_stock_data(symbol, days=400, period='daily')
get_stock_data(symbol) ==
    IF symbol \in {"A", "B"} THEN ScenarioResults(symbol) ELSE FetchResults

Holding(symbol, shares, cost) ==
    [symbol |-> symbol, shares |-> shares, cost_basis |-> cost]

\* portfolio_service.get_portfolio(user_id) as the analysis handler receives it
AnalysisHoldings ==
    { << >>,
      <<Holding("A", 10, Zero), Holding("B", 1, Zero)>>,
      <<Holding("AAPL", 1, Zero)>>,
      <<Holding("AAPL", 0, Zero)>>,
      <<Holding("AAPL", 1, Zero), Holding("600519", 1, Zero)>>,
      <<Holding("AAPL", 2, Zero), Holding("600519", 1, Zero)>>,
      <<Holding("AAPL", 1, Zero), Holding("600519", 0, Zero)>>,
      <<Holding("AAPL", -1, Zero), Holding("600519", 1, Zero)>> }

(***************************************************************************)
(* Sequences and pandas frames                                             *)
(***************************************************************************)
Range(seq) == {seq[i] : i \in 1..Len(seq)}

Last(seq) == seq[Len(seq)]

Front(seq) == SubSeq(seq, 1, Len(seq) - 1)

SetMin(S) == CHOOSE m \in S : \A x \in S : m <= x

\* the elements of a set of integers in ascending order
RECURSIVE SortedSeq(_)
SortedSeq(S) ==
    IF S = {} THEN << >>
    ELSE <<SetMin(S)>> \o SortedSeq(S \ {SetMin(S)})

\* the elements of seq at the positions of keep, in order
TakeRows(seq, keep) ==
    LET ks == SortedSeq(keep) IN [j \in 1..Len(ks) |-> seq[ks[j]]]

\* row labels of the outer join, in order of first appearance over the columns
RECURSIVE UnionIndex(_, _)
UnionIndex(cols, ps) ==
    IF cols = << >> THEN << >>
    ELSE LET head == UnionIndex(Front(cols), ps)
         IN  head \o SortedSeq(DOMAIN ps[Last(cols)] \ Range(head))

\* pd.DataFrame(price_series): one column per key, a cell is NaN where the
\* symbol has no bar on the row's date
DataFrame(cols, ps) ==
    LET idx == UnionIndex(cols, ps)
    IN  [index   |-> idx,
         columns |-> cols,
         data    |-> [s \in Range(cols) |->
                        [i \in 1..Len(idx) |->
                            IF idx[i] \in DOMAIN ps[s] THEN ps[s][idx[i]] ELSE NaN]]]

\* the sort left out: the rows stay in the order of the join
sort_index_skipped(df) == df

\* prices_df.sort_index(inplace=True)
sort_index(df) ==
    LET sorted == SortedSeq(Range(df.index))
        pos(d) == CHOOSE i \in 1..Len(df.index) : df.index[i] = d
    IN  [df EXCEPT !.index = sorted,
                   !.data  = [s \in DOMAIN df.data |->
                                [i \in 1..Len(sorted) |-> df.data[s][pos(sorted[i])]]]]

RECURSIVE FFillCol(_)
FFillCol(col) ==
    IF col = << >> THEN << >>
    ELSE LET prev == FFillCol(Front(col))
             x    == Last(col)
         IN  Append(prev, IF IsNaN(x) /\ prev # << >> THEN Last(prev) ELSE x)

\* prices_df.fillna(method='ffill', inplace=True)
ffill(df) == [df EXCEPT !.data = [s \in DOMAIN df.data |-> FFillCol(df.data[s])]]

\* dropna(how='all'): drop only the rows in which every cell is NaN
dropna_how_all(df) ==
    LET keep == {i \in 1..Len(df.index) :
                    \E s \in DOMAIN df.data : ~IsNaN(df.data[s][i])}
    IN  [df EXCEPT !.index = TakeRows(df.index, keep),
                   !.data  = [s \in DOMAIN df.data |-> TakeRows(df.data[s], keep)]]

\* prices_df.dropna(inplace=True): drop every row that has a NaN cell
dropna(df) ==
    LET keep == {i \in 1..Len(df.index) :
                    \A s \in DOMAIN df.data : ~IsNaN(df.data[s][i])}
    IN  [df EXCEPT !.index = TakeRows(df.index, keep),
                   !.data  = [s \in DOMAIN df.data |-> TakeRows(df.data[s], keep)]]

\* prices_df.empty
IsEmptyFrame(df) == Len(df.index) = 0 \/ Len(df.columns) = 0

\* step 3 of get_portfolio_analysis
AlignPrices(cols, ps) == dropna(ffill(sort_index(DataFrame(cols, ps))))

EmptyFrame == [index |-> << >>, columns |-> << >>, data |-> << >>]

(***************************************************************************)
(* Value curve and metrics (steps 4 to 6 of get_portfolio_analysis)        *)
(***************************************************************************)
MIN_RETURNS == 10
TRADING_DAYS == 252
rf == Q(3, 100)

\* shares_map.get(symbol, 0)
SharesOf(sm, symbol) == IF symbol \in DOMAIN sm THEN sm[symbol] ELSE 0

\* the value curve with the shares left out
RECURSIVE ValueCurve_unweighted(_, _, _)
ValueCurve_unweighted(df, sm, cols) ==
    IF cols = << >> THEN [i \in 1..Len(df.index) |-> Zero]
    ELSE LET acc == ValueCurve_unweighted(df, sm, Front(cols))
         IN  [i \in 1..Len(df.index) |-> FAdd(acc[i], df.data[Last(cols)][i])]

\* portfolio_value = 0.0 + sum over the columns of prices_df[symbol] * shares
RECURSIVE ValueCurve(_, _, _)
ValueCurve(df, sm, cols) ==
    IF cols = << >> THEN [i \in 1..Len(df.index) |-> Zero]
    ELSE LET acc == ValueCurve(df, sm, Front(cols))
             s   == Last(cols)
         IN  [i \in 1..Len(df.index) |->
                FAdd(acc[i], FMul(df.data[s][i], Int2F(SharesOf(sm, s))))]

\* Series.pct_change(): x / x.shift() - 1, NaN in the first position
pct_change(xs) ==
    [i \in 1..Len(xs) |->
        IF i = 1 THEN NaN ELSE FSub(FDiv(xs[i], xs[i - 1]), One)]

\* Series.dropna()
DropNaSeq(xs) == TakeRows(xs, {i \in 1..Len(xs) : ~IsNaN(xs[i])})

DailyReturns(pv) == DropNaSeq(pct_change(pv))

\* the floor off by one
TooFewReturns_strict(rs) == Len(rs) <= MIN_RETURNS

\* len(returns) < 10
TooFewReturns(rs) == Len(rs) < MIN_RETURNS

TotalReturn(pv) == FSub(FDiv(Last(pv), pv[1]), One)

\* b ** e for e > 0
FPow(b, e) ==
    IF IsNaN(b) \/ IsNaN(e) THEN NaN
    ELSE IF IsInf(b) THEN Inf
    ELSE IF b = One THEN One
    ELSE IF e = One THEN b
    ELSE IF b = Zero THEN Zero
    ELSE IF IsQ(b) /\ b.n < 0 THEN NaN
    ELSE Real

\* ((1 + total_return) ** (1 / years)) - 1 if years > 0 else 0
AnnualReturn(total_return, nret) ==
    LET years == Q(nret, TRADING_DAYS)
    IN  IF years.n > 0
        THEN FSub(FPow(FAdd(One, total_return), FDiv(One, years)), One)
        ELSE Zero

\* Series.std() (ddof = 1): zero exactly when all observations are equal
Std(xs) ==
    IF Len(xs) < 2 THEN NaN
    ELSE IF \E i \in 1..Len(xs) : ~IsNumber(xs[i]) THEN NaN
    ELSE IF \A i \in 1..Len(xs) : xs[i] = xs[1] THEN Zero
    ELSE Real

\* returns.std() * np.sqrt(TRADING_DAYS)
Volatility(returns) == FMul(Std(returns), Real)

\* the guard on a zero volatility left out
Sharpe_unguarded(annual_return, volatility) ==
    FDiv(FSub(annual_return, rf), volatility)

\* (annual_return - rf) / volatility if volatility != 0 else 0
Sharpe(annual_return, volatility) ==
    IF NonZero(volatility) THEN FDiv(FSub(annual_return, rf), volatility)
    ELSE Zero

\* the maximum of the whole series in every position, not the running one
RECURSIVE cummax_global(_)
cummax_global(xs) ==
    IF xs = << >> THEN << >>
    ELSE LET m == CHOOSE x \in Range(xs) : \A y \in Range(xs) : QLeq(y, x)
         IN  [i \in 1..Len(xs) |-> m]

\* portfolio_value.cummax()
RECURSIVE cummax(_)
cummax(xs) ==
    IF xs = << >> THEN << >>
    ELSE LET prev == cummax(Front(xs))
         IN  Append(prev, IF prev = << >> THEN Last(xs) ELSE QMax(Last(prev), Last(xs)))

\* (portfolio_value - rolling_max) / rolling_max
Drawdown(pv) ==
    LET rolling_max == cummax(pv)
    IN  [i \in 1..Len(pv) |-> FDiv(FSub(pv[i], rolling_max[i]), rolling_max[i])]

\* Series.min() (NaN skipped; NaN when nothing is left)
RECURSIVE SeriesMin(_)
SeriesMin(xs) ==
    IF xs = << >> THEN NaN
    ELSE LET m == SeriesMin(Front(xs))
             x == Last(xs)
         IN  IF IsNaN(x) THEN m ELSE IF IsNaN(m) THEN x ELSE QMin(m, x)

MaxDrawdown(pv) == SeriesMin(Drawdown(pv))

RECURSIVE FSum(_)
FSum(xs) == IF xs = << >> THEN Zero ELSE FAdd(FSum(Front(xs)), Last(xs))

\* n * sum(x*y) - sum(x) * sum(y)
CoMoment(xs, ys) ==
    FSub(FMul(Int2F(Len(xs)), FSum([i \in 1..Len(xs) |-> FMul(xs[i], ys[i])])),
         FMul(FSum(xs), FSum(ys)))

\* Pearson correlation of two columns: cov / sqrt(var_x * var_y), NaN when
\* the divisor is 0
Pearson(xs, ys) ==
    LET sxx == CoMoment(xs, xs)
        syy == CoMoment(ys, ys)
        sxy == CoMoment(xs, ys)
    IN  IF Len(xs) = 0 \/ ~IsQ(sxx) \/ ~IsQ(syy) \/ ~IsQ(sxy) THEN NaN
        ELSE IF sxx = Zero \/ syy = Zero THEN NaN
        ELSE IF sxy = Zero THEN Zero
        ELSE IF FMul(sxy, sxy) = FMul(sxx, syy)
             THEN (IF sxy.n > 0 THEN One ELSE FNeg(One))
        ELSE Real

\* prices_df.pct_change().dropna()
AssetReturns(df) ==
    dropna([df EXCEPT !.data = [s \in DOMAIN df.data |-> pct_change(df.data[s])]])

\* asset_returns.corr()
CorrMatrix(ar) ==
    [i \in 1..Len(ar.columns) |->
        [j \in 1..Len(ar.columns) |->
            Pearson(ar.data[ar.columns[i]], ar.data[ar.columns[j]])]]

\* corr_matrix.where(pd.notnull(corr_matrix), None).values.tolist(): whether a
\* NaN of a float frame becomes None or stays NaN depends on the pandas version
WhereNotNull(m, toNone) ==
    [i \in 1..Len(m) |->
        [j \in 1..Len(m[i]) |-> IF IsNaN(m[i][j]) /\ toNone THEN Null ELSE m[i][j]]]

\* the float passed through as it is
CleanFloat_passthrough(x) == x

\* _clean_nan_values on a float
CleanFloat(x) == IF IsNaN(x) \/ IsInf(x) THEN Null ELSE x

\* _clean_nan_values on the analysis result
CleanAnalysis(r) ==
    [metrics     |-> [m \in DOMAIN r.metrics |-> CleanFloat(r.metrics[m])],
     chart_data  |-> [i \in 1..Len(r.chart_data) |->
                        [time |-> r.chart_data[i].time,
                         value |-> CleanFloat(r.chart_data[i].value)]],
     correlation |-> [symbols |-> r.correlation.symbols,
                      matrix  |-> [i \in 1..Len(r.correlation.matrix) |->
                                    [j \in 1..Len(r.correlation.matrix[i]) |->
                                        CleanFloat(r.correlation.matrix[i][j])]]],
     period_days |-> r.period_days]

Hundred == Int2F(100)

\* step 7: the response body before cleaning
AnalysisResult(df, pv, returns, toNone) ==
    LET total_return  == TotalReturn(pv)
        annual_return == AnnualReturn(total_return, Len(returns))
        volatility    == Volatility(returns)
        sharpe        == Sharpe(annual_return, volatility)
        max_drawdown  == MaxDrawdown(pv)
        corr_matrix   == CorrMatrix(AssetReturns(df))
    IN  [metrics     |-> [total_return_pct  |-> FMul(total_return, Hundred),
                          annual_return_pct |-> FMul(annual_return, Hundred),
                          volatility_pct    |-> FMul(volatility, Hundred),
                          sharpe_ratio      |-> sharpe,
                          max_drawdown_pct  |-> FMul(max_drawdown, Hundred)],
         chart_data  |-> [i \in 1..Len(pv) |-> [time |-> df.index[i], value |-> pv[i]]],
         correlation |-> [symbols |-> df.columns,
                          matrix  |-> WhereNotNull(corr_matrix, toNone)],
         period_days |-> Len(returns)]

(***************************************************************************)
(* PortfolioService: the holdings store                                    *)
(***************************************************************************)
\* the most calls one behaviour of the store makes one after the other
MaxCalls == 3

Users == {"u1", "u2"}

\* symbol.upper() on the symbols the store is exercised with
upper_identity(symbol) == symbol

upper(symbol) ==
    CASE symbol = "aapl"   -> "AAPL"
      [] symbol = "AAPL"   -> "AAPL"
      [] symbol = "600519" -> "600519"

SymbolInputs == {"AAPL", "aapl", "600519"}

\* a quantity as the request carries it: a number (or a numeric string), or a
\* string float() cannot parse
Text == [k |-> "text", n |-> 0, d |-> 1]

\* (quantity, cost) of the add and update requests: a whole number, a negative
\* fraction, a positive fraction and an unparsable string
StockArgs ==
    { [quantity |-> Int2F(10), cost_basis |-> Int2F(5)],
      [quantity |-> Q(-5, 2),  cost_basis |-> Int2F(8)],
      [quantity |-> Q(7, 2),   cost_basis |-> Int2F(8)],
      [quantity |-> Text,      cost_basis |-> Int2F(5)] }

\* int(x) of a float: the fraction is dropped, towards zero
Trunc(x) == IF x.n >= 0 THEN x.n \div x.d ELSE -((-x.n) \div x.d)

\* int(float(quantity)), 0 when float() raises ValueError
safe_shares(quantity) ==
    IF quantity.k = "text" THEN 0 ELSE Trunc(quantity)

\* the record add_stock builds
Record(user_id, symbol, quantity, cost_basis, now) ==
    [user_id    |-> user_id,
     symbol     |-> upper(symbol),
     shares     |-> safe_shares(quantity),
     cost_basis |-> cost_basis,
     updated_at |-> now]

\* the primary key the holdings table may have: (user_id, symbol), or symbol
\* alone as the migration script assumes
PrimaryKeys == {{"user_id", "symbol"}, {"symbol"}}

SameKey(r1, r2, key) == \A f \in key : r1[f] = r2[f]

\* table("holdings").upsert(record): the row with the record's key is
\* replaced, a record with a new key is inserted
Upsert(rows, record, key) ==
    LET hit == {i \in 1..Len(rows) : SameKey(rows[i], record, key)}
    IN  IF hit = {} THEN Append(rows, record)
        ELSE [i \in 1..Len(rows) |-> IF i \in hit THEN record ELSE rows[i]]

\* table("holdings").delete().eq("user_id", user_id).eq("symbol", symbol)
Delete(rows, user_id, symbol) ==
    SelectSeq(rows, LAMBDA r : ~(r.user_id = user_id /\ r.symbol = symbol))

\* the local branch of add_stock on the list read from the file: the first
\* item with the symbol gets the shares, cost and time, else the record is
\* appended
LocalAdd(data, record) ==
    LET hit == {i \in 1..Len(data) : data[i].symbol = record.symbol}
    IN  IF hit = {} THEN Append(data, record)
        ELSE [data EXCEPT ![SetMin(hit)] =
                 [@ EXCEPT !.shares     = record.shares,
                           !.cost_basis = record.cost_basis,
                           !.updated_at = record.updated_at]]

\* the local branch of remove_stock on the list read from the file
LocalRemove(data, symbol) == SelectSeq(data, LAMBDA d : d.symbol # symbol)

\* get_portfolio(user_id): the rows of the owner from Supabase, the whole
\* file in local mode
get_portfolio(supabase, rows, user_id) ==
    IF supabase THEN SelectSeq(rows, LAMBDA r : r.user_id = user_id)
    ELSE rows

\* the requests served at the same time
NumProcs == 2

Procs == 1..NumProcs

Call(op, user_id, symbol, quantity, cost_basis, raised, status) ==
    [op |-> op, user_id |-> user_id, symbol |-> symbol, quantity |-> quantity,
     cost_basis |-> cost_basis, raised |-> raised, status |-> status]

NoCall == Call("", "", "", Zero, Zero, FALSE, "")

Idle == [pc |-> "idle", call |-> NoCall, data |-> << >>, now |-> 0, arrived |-> 0]

(***************************************************************************)
(* State of one request                                                    *)
(***************************************************************************)
VARIABLES
    pc,               \* position of the handler
    route,            \* "analysis" or "overview" ("" before a request arrives)
    holdings,         \* what portfolio_service.get_portfolio returned
    idx,              \* position of the fetch loop in holdings
    price_series,     \* symbol -> fetched close series
    columns,          \* the keys of price_series in insertion order
    shares_map,       \* symbol -> shares
    prices_df,        \* the aligned matrix
    portfolio_value,  \* the value curve
    returns,          \* daily returns of the value curve
    realtime_data,    \* symbol -> quote (overview)
    enriched_holdings,\* the holdings enriched so far (overview)
    totals,           \* the currency subtotals so far (overview)
    fetched,          \* the symbols get_stock_data was called with (analysis)
    response          \* [status, body] once the handler has returned

\* the holdings store and the calls on it
VARIABLES
    use_supabase,     \* PortfolioService.use_supabase
    primary_key,      \* the primary key of the holdings table
    store,            \* the rows of the table, or the list in portfolio.json
    clock,            \* datetime.utcnow(), one tick per call
    call,             \* the last call that returned, with what it returned
    effect,           \* whether that call repeated the one before it, or removed
    inflight          \* per concurrent request: its call and the list it read

requestVars == <<pc, route, holdings, idx, price_series, columns, shares_map,
                 prices_df, portfolio_value, returns, realtime_data,
                 enriched_holdings, totals, fetched, response>>

\* the company summaries
VARIABLES
    gemini_client,    \* PortfolioService.gemini_client: "client" or "none"
    summary_cache,    \* company_summaries.json: symbol -> summary
    summary_call,     \* the last get_company_summary call and what it returned
    summary_calls     \* the get_company_summary calls so far

summaryVars == <<gemini_client, summary_cache, summary_call, summary_calls>>

\* DataFetcher: one get_realtime_batch call and the get_stock_data call in it
VARIABLES
    fetch_pc,         \* position of get_realtime_batch and get_stock_data
    batch,            \* the symbols get_realtime_batch was called with
    batch_idx,        \* position of its loop in the symbols
    results,          \* its results dict: symbol -> quote
    batch_log,        \* per symbol done: what the fetch gave and the entry made
    attempt,          \* the loop variable of the A-share retry loop
    fetch_df,               \* the local df of get_stock_data
    attempts,         \* per attempt made: the wait and what each interface gave
    returned          \* what get_stock_data returned ("" while it runs)

fetcherVars == <<fetch_pc, batch, batch_idx, results, batch_log, attempt, fetch_df,
                 attempts, returned>>

\* the report pipeline: POST /api/agent/generate_report or the test script
VARIABLES
    report_pc,        \* position of the pipeline
    pipeline,         \* "web" or "script" ("" before it starts)
    report_log,       \* the calls made so far, in order
    research,         \* what the research sub-tasks returned, in order
    raw_search_content,\* the research content in the prompt of the synthesis
    report_text,      \* the final report text ("" while there is none)
    pdf_made,         \* create_markdown_pdf returned
    documents,        \* the reports saved to the knowledge base
    report_response   \* the status the request ended with (0 while it runs)

reportVars == <<report_pc, pipeline, report_log, research, raw_search_content,
                report_text, pdf_made, documents, report_response>>

\* the read requests GET /api/portfolio and GET /api/portfolio/analysis
VARIABLES
    world,            \* what the requests meet: the rows stored, the User-ID
                      \* header, and what the fetcher gives for each symbol
    readers           \* per request: its position, handler, holdings, response

readVars == <<world, readers>>

\* the state of the other services
auxVars == <<summaryVars, fetcherVars, reportVars, readVars>>

storeVars == <<use_supabase, primary_key, store, clock, call, effect, inflight>>

vars == <<pc, route, holdings, idx, price_series, columns, shares_map,
          prices_df, portfolio_value, returns, realtime_data, enriched_holdings,
          totals, fetched, response, storeVars, auxVars>>

NoResponse == [status |-> 0, body |-> << >>]

ErrorResponse(code, msg) == [status |-> code, body |-> [error |-> msg]]

Init ==
    /\ pc = "idle"
    /\ route = ""
    /\ holdings = << >>
    /\ idx = 1
    /\ price_series = << >>
    /\ columns = << >>
    /\ shares_map = << >>
    /\ prices_df = EmptyFrame
    /\ portfolio_value = << >>
    /\ returns = << >>
    /\ realtime_data = << >>
    /\ enriched_holdings = << >>
    /\ totals = << >>
    /\ fetched = {}
    /\ response = NoResponse
    /\ use_supabase \in BOOLEAN
    /\ primary_key \in (IF use_supabase THEN PrimaryKeys ELSE {{}})
    /\ store = << >>
    /\ clock = 0
    /\ call = NoCall
    /\ effect = ""
    /\ inflight = [p \in Procs |-> Idle]
    /\ gemini_client = "unset"
    /\ summary_cache = << >>
    /\ summary_call = [symbol |-> "", summary |-> "", generated |-> FALSE]
    /\ summary_calls = 0
    /\ fetch_pc = "idle"
    /\ batch = << >>
    /\ batch_idx = 1
    /\ results = << >>
    /\ batch_log = << >>
    /\ attempt = 0
    /\ fetch_df = "None"
    /\ attempts = << >>
    /\ returned = ""
    /\ report_pc = "idle"
    /\ pipeline = ""
    /\ report_log = << >>
    /\ research = << >>
    /\ raw_search_content = << >>
    /\ report_text = ""
    /\ pdf_made = FALSE
    /\ documents = {}
    /\ report_response = 0
    /\ world = [seeded |-> FALSE, rows |-> << >>, user_id |-> "",
                history |-> << >>, quotes |-> << >>, toNone |-> FALSE]
    /\ readers = [r \in Procs |->
                    [pc |-> "idle", view |-> "", holdings |-> << >>,
                     response |-> NoResponse]]

\* d[k] = v on a dict
Put(d, k, v) == [x \in DOMAIN d \cup {k} |-> IF x = k THEN v ELSE d[x]]

(***************************************************************************)
(* GET /api/portfolio/analysis                                             *)
(***************************************************************************)
\* step 1: read the holdings; an empty portfolio is a 400
AnalysisStart ==
    /\ pc = "idle"
    /\ \E hs \in AnalysisHoldings :
        /\ holdings' = hs
        /\ route' = "analysis"
        /\ IF hs = << >>
           THEN /\ response' = ErrorResponse(400, "Portfolio is empty")
                /\ pc' = "done"
           ELSE /\ response' = response
                /\ pc' = "fetch"
    /\ UNCHANGED <<idx, price_series, columns, shares_map, prices_df,
                   portfolio_value, returns, realtime_data,
                   enriched_holdings, totals, fetched, storeVars, auxVars>>

Skipped_negative(shares) == shares < 0

\* if shares <= 0: continue
Skipped(shares) == shares <= 0

Fetched_always(df) == TRUE

\* df is not None and not df.empty
Fetched(df) == df # NoneDf

\* step 2, one iteration of the loop over the holdings
FetchHistory ==
    /\ pc = "fetch"
    /\ route = "analysis"
    /\ idx <= Len(holdings)
    /\ LET symbol == holdings[idx].symbol
           shares == holdings[idx].shares
       IN  IF Skipped(shares)
           THEN UNCHANGED <<price_series, columns, shares_map, fetched>>
           ELSE /\ fetched' = fetched \cup {symbol}
                /\ \E df \in get_stock_data(symbol) :
                     IF Fetched(df)
                     THEN /\ price_series' = Put(price_series, symbol, df)
                          /\ columns' = IF symbol \in Range(columns) THEN columns
                                        ELSE Append(columns, symbol)
                          /\ shares_map' = Put(shares_map, symbol, shares)
                     ELSE UNCHANGED <<price_series, columns, shares_map>>
    /\ idx' = idx + 1
    /\ UNCHANGED <<pc, route, holdings, prices_df, portfolio_value, returns,
                   realtime_data, response, enriched_holdings, totals,
                   storeVars, auxVars>>

\* the check for an empty price_series left out
FetchDone_unchecked ==
    /\ pc = "fetch"
    /\ route = "analysis"
    /\ idx > Len(holdings)
    /\ response' = response
    /\ pc' = "align"
    /\ UNCHANGED <<route, holdings, idx, price_series, columns, shares_map,
                   prices_df, portfolio_value, returns, realtime_data,
                   enriched_holdings, totals, fetched, storeVars, auxVars>>

\* after the loop: no series at all is a 500
FetchDone ==
    /\ pc = "fetch"
    /\ route = "analysis"
    /\ idx > Len(holdings)
    /\ IF DOMAIN price_series = {}
       THEN /\ response' = ErrorResponse(500, "Could not fetch historical data")
            /\ pc' = "done"
       ELSE /\ response' = response
            /\ pc' = "align"
    /\ UNCHANGED <<route, holdings, idx, price_series, columns, shares_map,
                   prices_df, portfolio_value, returns, realtime_data,
                   enriched_holdings, totals, fetched, storeVars, auxVars>>

\* step 3: outer join, sort, forward fill, dropna; an empty matrix is a 400
Align ==
    /\ pc = "align"
    /\ prices_df' = AlignPrices(columns, price_series)
    /\ IF IsEmptyFrame(prices_df')
       THEN /\ response' = ErrorResponse(400, "Insufficient overlapping data for analysis")
            /\ pc' = "done"
       ELSE /\ response' = response
            /\ pc' = "value"
    /\ UNCHANGED <<route, holdings, idx, price_series, columns, shares_map,
                   portfolio_value, returns, realtime_data,
                   enriched_holdings, totals, fetched, storeVars, auxVars>>

\* steps 4 and 5: value curve and daily returns; fewer than 10 returns is a 400
ValueAndReturns ==
    /\ pc = "value"
    /\ portfolio_value' = ValueCurve(prices_df, shares_map, prices_df.columns)
    /\ returns' = DailyReturns(portfolio_value')
    /\ IF TooFewReturns(returns')
       THEN /\ response' = ErrorResponse(400, "Not enough data points for metrics")
            /\ pc' = "done"
       ELSE /\ response' = response
            /\ pc' = "metrics"
    /\ UNCHANGED <<route, holdings, idx, price_series, columns, shares_map,
                   prices_df, realtime_data,
                   enriched_holdings, totals, fetched, storeVars, auxVars>>

\* steps 5 to 7: metrics, correlation, cleaned response
Metrics ==
    /\ pc = "metrics"
    /\ \E toNone \in BOOLEAN :
        response' = [status |-> 200,
                     body |-> CleanAnalysis(
                        AnalysisResult(prices_df, portfolio_value, returns, toNone))]
    /\ pc' = "done"
    /\ UNCHANGED <<route, holdings, idx, price_series, columns, shares_map,
                   prices_df, portfolio_value, returns, realtime_data,
                   enriched_holdings, totals, fetched, storeVars, auxVars>>

\* step 2 as a whole: what the loop over the holdings hs collects when
\* get_stock_data answers market[symbol]
RECURSIVE Collect(_, _)
Collect(hs, market) ==
    IF hs = << >>
    THEN [price_series |-> << >>, columns |-> << >>, shares_map |-> << >>]
    ELSE LET prev == Collect(Front(hs), market)
             h    == Last(hs)
         IN  IF Skipped(h.shares) \/ ~Fetched(market[h.symbol]) THEN prev
             ELSE [price_series |-> Put(prev.price_series, h.symbol, market[h.symbol]),
                   columns      |-> IF h.symbol \in Range(prev.columns)
                                    THEN prev.columns
                                    ELSE Append(prev.columns, h.symbol),
                   shares_map   |-> Put(prev.shares_map, h.symbol, h.shares)]

\* get_portfolio_analysis as a whole: the response for the holdings hs when
\* get_stock_data answers market[symbol]
AnalysisResponse(hs, market, toNone) ==
    IF hs = << >> THEN ErrorResponse(400, "Portfolio is empty")
    ELSE LET c == Collect(hs, market)
         IN  IF DOMAIN c.price_series = {}
             THEN ErrorResponse(500, "Could not fetch historical data")
             ELSE LET df == AlignPrices(c.columns, c.price_series)
                  IN  IF IsEmptyFrame(df)
                      THEN ErrorResponse(400, "Insufficient overlapping data for analysis")
                      ELSE LET pv == ValueCurve(df, c.shares_map, df.columns)
                               rs == DailyReturns(pv)
                           IN  IF TooFewReturns(rs)
                               THEN ErrorResponse(400, "Not enough data points for metrics")
                               ELSE [status |-> 200,
                                     body |-> CleanAnalysis(AnalysisResult(df, pv, rs, toNone))]

(***************************************************************************)
(* GET /api/portfolio (overview)                                           *)
(***************************************************************************)
\* the characters of the symbols the overview is exercised with
Spelling ==
    [s \in {"AAPL", "600519", "000001.SZ"} |->
        CASE s = "AAPL"      -> <<"A", "A", "P", "L">>
          [] s = "600519"    -> <<"6", "0", "0", "5", "1", "9">>
          [] s = "000001.SZ" -> <<"0", "0", "0", "0", "0", "1", ".", "S", "Z">>]

Digits == {"0", "1", "2", "3", "4", "5", "6", "7", "8", "9"}

DigitSymbols ==
    {s \in DOMAIN Spelling :
        Spelling[s] # << >> /\ \A i \in 1..Len(Spelling[s]) : Spelling[s][i] \in Digits}

\* symbol.isdigit()
isdigit(symbol) == symbol \in DigitSymbols

\* the fixed exchange rate 7.1
rate == Q(71, 10)

Quote(price, pct, name) == [price |-> price, change_pct |-> pct, name |-> name]

\* the entry get_realtime_batch makes for a symbol: the placeholder when the
\* fetch gave nothing, else float(close) and float(change_pct) of the last bar,
\* either of which may be NaN
RealtimeQuotes(symbol) ==
    { Quote(Zero, Zero, symbol),
      Quote(Int2F(10), Zero, symbol),
      Quote(Int2F(100), Zero, symbol),
      Quote(Int2F(10), Int2F(25), symbol),
      Quote(Int2F(10), Int2F(-100), symbol),
      Quote(Int2F(10), NaN, symbol),
      Quote(NaN, Int2F(25), symbol) }

\* portfolio_service.get_portfolio(user_id) as the overview handler receives it
OverviewHoldings ==
    { << >>,
      <<Holding("AAPL", 5, Zero)>>,
      <<Holding("600519", 10, Int2F(8))>>,
      <<Holding("000001.SZ", 3, Int2F(2))>>,
      <<Holding("AAPL", 2, Int2F(5)), Holding("600519", 10, Int2F(8))>>,
      <<Holding("600519", 10, Int2F(50)), Holding("AAPL", 10, Int2F(5))>>,
      <<Holding("600519", 0, Int2F(8)), Holding("AAPL", 1, Int2F(20))>> }

PctOf_unguarded(pl, cost) == FMul(FDiv(pl, cost), Hundred)

\* (pl / cost * 100) if cost else 0
PctOf(pl, cost) ==
    IF NonZero(cost) THEN FMul(FDiv(pl, cost), Hundred) ELSE Zero

PrevClose_unguarded(current_price, day_change_pct) ==
    FDiv(current_price, FAdd(One, FDiv(day_change_pct, Hundred)))

\* current_price / (1 + pct/100) if (1 + pct/100) != 0 else current_price
PrevClose(current_price, day_change_pct) ==
    LET factor == FAdd(One, FDiv(day_change_pct, Hundred))
    IN  IF NonZero(factor) THEN FDiv(current_price, factor) ELSE current_price

\* the body of the loop over the holdings: one enriched holding
Enrich(h, rt) ==
    LET shares            == Int2F(h.shares)
        current_price     == rt.price
        day_change_pct    == rt.change_pct
        market_value      == FMul(current_price, shares)
        cost_value        == FMul(h.cost_basis, shares)
        unrealized_pl     == FSub(market_value, cost_value)
        unrealized_pl_pct == PctOf(unrealized_pl, cost_value)
        prev_close        == PrevClose(current_price, day_change_pct)
        day_pl            == FMul(FSub(current_price, prev_close), shares)
    IN  [symbol            |-> h.symbol,
         name              |-> rt.name,
         shares            |-> h.shares,
         cost_basis        |-> h.cost_basis,
         current_price     |-> current_price,
         market_value      |-> market_value,
         cost_value        |-> cost_value,
         unrealized_pl     |-> unrealized_pl,
         unrealized_pl_pct |-> unrealized_pl_pct,
         day_change_pct    |-> day_change_pct,
         day_pl            |-> day_pl,
         currency          |-> IF isdigit(h.symbol) THEN "CNY" ELSE "USD"]

\* the six currency subtotals before the loop
ZeroTotals ==
    [total_mv_usd |-> Zero, total_cost_usd |-> Zero, total_day_pl_usd |-> Zero,
     total_mv_cny |-> Zero, total_cost_cny |-> Zero, total_day_pl_cny |-> Zero]

Accumulate_both(t, e) ==
    [total_mv_usd     |-> FAdd(t.total_mv_usd, e.market_value),
     total_cost_usd   |-> FAdd(t.total_cost_usd, e.cost_value),
     total_day_pl_usd |-> FAdd(t.total_day_pl_usd, e.day_pl),
     total_mv_cny     |-> FAdd(t.total_mv_cny, e.market_value),
     total_cost_cny   |-> FAdd(t.total_cost_cny, e.cost_value),
     total_day_pl_cny |-> FAdd(t.total_day_pl_cny, e.day_pl)]

\* "Accumulate Subtotals": the holding goes to the subtotals of its currency
Accumulate(t, e) ==
    IF e.currency = "USD"
    THEN [t EXCEPT !.total_mv_usd     = FAdd(@, e.market_value),
                   !.total_cost_usd   = FAdd(@, e.cost_value),
                   !.total_day_pl_usd = FAdd(@, e.day_pl)]
    ELSE [t EXCEPT !.total_mv_cny     = FAdd(@, e.market_value),
                   !.total_cost_cny   = FAdd(@, e.cost_value),
                   !.total_day_pl_cny = FAdd(@, e.day_pl)]

Consolidate_multiplied(usd, cny) == FAdd(usd, FMul(cny, rate))

\* step 5: a CNY subtotal is converted to USD at the fixed rate and added
Consolidate(usd, cny) == FAdd(usd, FDiv(cny, rate))

Overview(t) ==
    LET final_mv     == Consolidate(t.total_mv_usd, t.total_mv_cny)
        final_cost   == Consolidate(t.total_cost_usd, t.total_cost_cny)
        final_day_pl == Consolidate(t.total_day_pl_usd, t.total_day_pl_cny)
        total_pl     == FSub(final_mv, final_cost)
        total_pl_pct == PctOf(total_pl, final_cost)
    IN  [total_market_value |-> final_mv,
         total_cost         |-> final_cost,
         total_pl           |-> total_pl,
         total_pl_pct       |-> total_pl_pct,
         day_pl             |-> final_day_pl,
         currency           |-> "USD",
         exchange_rate      |-> rate]

\* the enriched holding as appended to enriched_holdings (cost_value is a
\* local of the loop)
Serialized(e) == [f \in DOMAIN e \ {"cost_value"} |-> e[f]]

EmptyOverview ==
    [total_market_value |-> Zero, total_pl |-> Zero, total_cost |-> Zero,
     day_pl |-> Zero, total_pl_pct |-> Zero, currency |-> "CNY"]

\* step 1: read the holdings; an empty portfolio gets the all-zero overview
OverviewStart ==
    /\ pc = "idle"
    /\ \E hs \in OverviewHoldings :
        /\ holdings' = hs
        /\ route' = "overview"
        /\ IF hs = << >>
           THEN /\ response' = [status |-> 200,
                                body |-> [overview |-> EmptyOverview, holdings |-> << >>]]
                /\ pc' = "done"
           ELSE /\ response' = response
                /\ pc' = "realtime"
    /\ UNCHANGED <<idx, price_series, columns, shares_map, prices_df,
                   portfolio_value, returns, realtime_data, enriched_holdings,
                   totals, fetched, storeVars, auxVars>>

\* step 3: fetcher.get_realtime_batch(symbols), one entry per symbol; the
\* subtotals and the list of enriched holdings start empty
RealtimeBatch ==
    /\ pc = "realtime"
    /\ \E rd \in [Range([i \in 1..Len(holdings) |-> holdings[i].symbol]) ->
                    UNION {RealtimeQuotes(s) : s \in DOMAIN Spelling}] :
        /\ \A s \in DOMAIN rd : rd[s] \in RealtimeQuotes(s)
        /\ realtime_data' = rd
    /\ enriched_holdings' = << >>
    /\ totals' = ZeroTotals
    /\ idx' = 1
    /\ pc' = "enrich"
    /\ UNCHANGED <<route, holdings, price_series, columns, shares_map,
                   prices_df, portfolio_value, returns, response, fetched, storeVars, auxVars>>

\* step 4: one pass of the loop over the holdings
EnrichHolding ==
    /\ pc = "enrich"
    /\ LET h == holdings[idx]
           e == Enrich(h, realtime_data[h.symbol])
       IN  /\ totals' = Accumulate(totals, e)
           /\ enriched_holdings' = Append(enriched_holdings, Serialized(e))
    /\ idx' = idx + 1
    /\ pc' = IF idx = Len(holdings) THEN "compute" ELSE "enrich"
    /\ UNCHANGED <<route, holdings, price_series, columns, shares_map,
                   prices_df, portfolio_value, returns, realtime_data, response,
                   fetched, storeVars, auxVars>>

\* step 5: consolidate; the body goes to jsonify as is
ComputeOverview ==
    /\ pc = "compute"
    /\ response' = [status |-> 200,
                    body |-> [overview |-> Overview(totals),
                              holdings |-> enriched_holdings]]
    /\ pc' = "done"
    /\ UNCHANGED <<route, holdings, idx, price_series, columns, shares_map,
                   prices_df, portfolio_value, returns, realtime_data,
                   enriched_holdings, totals, fetched, storeVars, auxVars>>

Next ==
    \/ AnalysisStart
    \/ FetchHistory
    \/ FetchDone
    \/ Align
    \/ ValueAndReturns
    \/ Metrics
    \/ OverviewStart
    \/ RealtimeBatch
    \/ EnrichHolding
    \/ ComputeOverview

Spec == Init /\ [][Next]_vars

(***************************************************************************)
(* PortfolioService: the calls                                             *)
(***************************************************************************)
\* the write of add_stock: record goes to the table as it is now, or the list
\* read from the file goes back to the file with the record in it
AddWrite(supabase, key, rows, data, record) ==
    IF supabase THEN Upsert(rows, record, key) ELSE LocalAdd(data, record)

\* the write of remove_stock
RemoveWrite(supabase, rows, data, user_id, symbol) ==
    IF supabase THEN Delete(rows, user_id, upper(symbol))
    ELSE LocalRemove(data, upper(symbol))

\* add_stock as one call; raised: the request to Supabase raised
add_stock(supabase, key, rows, user_id, symbol, quantity, cost_basis, now, raised) ==
    IF raised THEN [store |-> rows, status |-> "error"]
    ELSE [store  |-> AddWrite(supabase, key, rows,
                              get_portfolio(supabase, rows, user_id),
                              Record(user_id, symbol, quantity, cost_basis, now)),
          status |-> "success"]

update_stock(supabase, key, rows, user_id, symbol, quantity, cost_basis, now, raised) ==
    add_stock(supabase, key, rows, user_id, symbol, quantity, cost_basis, now, raised)

remove_stock_strict(supabase, rows, user_id, symbol, raised) ==
    IF raised \/ \A i \in 1..Len(rows) : rows[i].symbol # upper(symbol)
    THEN [store |-> rows, status |-> "error"]
    ELSE [store  |-> RemoveWrite(supabase, rows,
                                 get_portfolio(supabase, rows, user_id),
                                 user_id, symbol),
          status |-> "success"]

\* remove_stock as one call
remove_stock(supabase, rows, user_id, symbol, raised) ==
    IF raised THEN [store |-> rows, status |-> "error"]
    ELSE [store  |-> RemoveWrite(supabase, rows,
                                 get_portfolio(supabase, rows, user_id),
                                 user_id, symbol),
          status |-> "success"]

\* whether the request of a call may raise: only Supabase is a remote service
Raises == IF use_supabase THEN BOOLEAN ELSE {FALSE}

\* what a call that has returned did: "same" when it and the call before it
\* are successful adds with the same arguments, "case" when their symbols
\* differ in case alone, "removed" when it took records out of the store
Effect(c1, c2, rows1, rows2) ==
    IF /\ c1.op = "add_stock" /\ c1.status = "success"
       /\ c2.op = "add_stock" /\ c2.status = "success"
       /\ c1.user_id = c2.user_id /\ upper(c1.symbol) = upper(c2.symbol)
       /\ c1.quantity = c2.quantity /\ c1.cost_basis = c2.cost_basis
    THEN (IF c1.symbol = c2.symbol THEN "same" ELSE "case")
    ELSE IF c2.op = "remove_stock" /\ Len(rows2) < Len(rows1) THEN "removed"
    ELSE ""

\* POST /api/portfolio/add
AddStock ==
    /\ clock < MaxCalls
    /\ \A p \in Procs : inflight[p] = Idle
    /\ \E user_id \in Users, symbol \in SymbolInputs, a \in StockArgs, raised \in Raises :
        LET r == add_stock(use_supabase, primary_key, store, user_id, symbol,
                           a.quantity, a.cost_basis, clock, raised)
        IN  /\ store' = r.store
            /\ call' = Call("add_stock", user_id, symbol, a.quantity,
                            a.cost_basis, raised, r.status)
            /\ effect' = Effect(call, call', store, store')
    /\ clock' = clock + 1
    /\ UNCHANGED <<use_supabase, primary_key, inflight, requestVars, auxVars>>

\* POST /api/portfolio/update: update_stock is add_stock
UpdateStock ==
    /\ clock < MaxCalls
    /\ \A p \in Procs : inflight[p] = Idle
    /\ \E user_id \in Users, symbol \in SymbolInputs, a \in StockArgs, raised \in Raises :
        LET r == update_stock(use_supabase, primary_key, store, user_id, symbol,
                              a.quantity, a.cost_basis, clock, raised)
        IN  /\ store' = r.store
            /\ call' = Call("add_stock", user_id, symbol, a.quantity,
                            a.cost_basis, raised, r.status)
            /\ effect' = Effect(call, call', store, store')
    /\ clock' = clock + 1
    /\ UNCHANGED <<use_supabase, primary_key, inflight, requestVars, auxVars>>

\* DELETE /api/portfolio/remove
RemoveStock ==
    /\ clock < MaxCalls
    /\ \A p \in Procs : inflight[p] = Idle
    /\ \E user_id \in Users, symbol \in SymbolInputs, raised \in Raises :
        LET r == remove_stock(use_supabase, store, user_id, symbol, raised)
        IN  /\ store' = r.store
            /\ call' = Call("remove_stock", user_id, symbol, Zero, Zero,
                            raised, r.status)
            /\ effect' = Effect(call, call', store, store')
    /\ clock' = clock + 1
    /\ UNCHANGED <<use_supabase, primary_key, inflight, requestVars, auxVars>>

NextStore ==
    \/ AddStock
    \/ UpdateStock
    \/ RemoveStock

SpecStore == Init /\ [][NextStore]_vars

(***************************************************************************)
(* Requests sent at the same time: app.run(threaded=False) serves them     *)
(***************************************************************************)
\* the calls the concurrent requests make
ConcurrentCalls ==
    { Call("add_stock", "u1", "AAPL", Int2F(10), Int2F(5), FALSE, ""),
      Call("add_stock", "u1", "600519", Int2F(10), Int2F(5), FALSE, ""),
      Call("add_stock", "u2", "aapl", Q(7, 2), Int2F(8), FALSE, ""),
      Call("remove_stock", "u1", "AAPL", Zero, Zero, FALSE, ""),
      Call("remove_stock", "u2", "600519", Zero, Zero, FALSE, "") }

\* a client sends a request; it waits until the server takes it
Arrive(p) ==
    /\ inflight[p].pc = "idle"
    /\ \E c \in ConcurrentCalls :
        inflight' = [inflight EXCEPT ![p] =
            [pc |-> "pending", call |-> c, data |-> << >>, now |-> 0,
             arrived |-> clock]]
    /\ clock' = clock + 1
    /\ UNCHANGED <<use_supabase, primary_key, store, call, effect, requestVars, auxVars>>

ServerFree_threaded(p) == TRUE

\* threaded=False: the server takes a request only when it serves no other
ServerFree(p) == \A q \in Procs \ {p} : inflight[q].pc # "read"

\* the server takes the request into add_stock or remove_stock; in local mode
\* the call reads the file
BeginCall(p) ==
    /\ inflight[p].pc = "pending"
    /\ ServerFree(p)
    /\ inflight' = [inflight EXCEPT ![p] =
            [@ EXCEPT !.pc   = "read",
                      !.data = IF use_supabase THEN << >>
                               ELSE get_portfolio(use_supabase, store,
                                                  inflight[p].call.user_id),
                      !.now  = clock]]
    /\ clock' = clock + 1
    /\ UNCHANGED <<use_supabase, primary_key, store, call, effect, requestVars, auxVars>>

\* the call writes: the upsert or delete in Supabase, the whole list it read
\* (with its change) to the file in local mode; the request is answered
FinishCall(p) ==
    /\ inflight[p].pc = "read"
    /\ LET c == inflight[p].call
       IN  /\ store' =
                IF c.op = "add_stock"
                THEN AddWrite(use_supabase, primary_key, store, inflight[p].data,
                              Record(c.user_id, c.symbol, c.quantity,
                                     c.cost_basis, inflight[p].now))
                ELSE RemoveWrite(use_supabase, store, inflight[p].data,
                                 c.user_id, c.symbol)
           /\ call' = [c EXCEPT !.status = "success"]
    /\ inflight' = [inflight EXCEPT ![p].pc = "done"]
    /\ UNCHANGED <<use_supabase, primary_key, clock, effect, requestVars, auxVars>>

NextConcurrent == \E p \in Procs : Arrive(p) \/ BeginCall(p) \/ FinishCall(p)

SpecConcurrent == Init /\ [][NextConcurrent]_vars

(***************************************************************************)
(* PortfolioService: company summaries and their cache                     *)
(***************************************************************************)
\* the most get_company_summary calls of one behaviour
MaxSummaryCalls == 3

\* what _fetch_gemini_summary returns when it has no client, when the
\* response has no text, and when the request raises
ClientMissing == "API Key Missing or Client Not Initialized"

NoText == "AI Generation Error: No text in response"

NetworkErrors == {"Network Error: timed out", "Network Error: "}

FailureStrings == {ClientMissing, NoText} \cup NetworkErrors

\* response.text.strip() of a response with text: a summary, nothing but
\* white space, or a text that reads like an error
GeneratedTexts ==
    {"Makes phones.", "Makes liquor.", "", "API Error: 429", "Network Error",
     "AI Generation Error"}

\* _fetch_gemini_summary(symbol)
FetchGeminiSummary(client) ==
    IF client = "none" THEN {ClientMissing}
    ELSE GeneratedTexts \cup {NoText} \cup NetworkErrors

\* summary.startswith("API Error")
StartsWithApiError(summary) == summary \in {"API Error: 429"}

\* the test before "cache[symbol] = summary"
Cacheable(summary) ==
    /\ summary # ""
    /\ ~StartsWithApiError(summary)
    /\ summary # "Network Error"
    /\ summary # "AI Generation Error"

CacheHit_never(cache, symbol) == FALSE

\* symbol in cache
CacheHit(cache, symbol) == symbol \in DOMAIN cache

SummarySymbols == {"", "AAPL", "600519"}

\* PortfolioService.__init__: the Gemini client exists when the key is set
\* and the client could be made
ConfigureGemini ==
    /\ gemini_client = "unset"
    /\ gemini_client' \in {"client", "none"}
    /\ UNCHANGED <<summary_cache, summary_call, summary_calls, requestVars,
                   storeVars, fetcherVars, reportVars,
                   readVars>>

\* GET /api/stock_summary: get_company_summary(symbol)
GetCompanySummary ==
    /\ gemini_client # "unset"
    /\ summary_calls < MaxSummaryCalls
    /\ \E symbol \in SummarySymbols :
        IF symbol = ""
        THEN /\ summary_call' = [symbol |-> symbol, summary |-> "", generated |-> FALSE]
             /\ summary_cache' = summary_cache
        ELSE IF CacheHit(summary_cache, symbol)
        THEN /\ summary_call' = [symbol |-> symbol, summary |-> summary_cache[symbol],
                                 generated |-> FALSE]
             /\ summary_cache' = summary_cache
        ELSE \E summary \in FetchGeminiSummary(gemini_client) :
             /\ summary_call' = [symbol |-> symbol, summary |-> summary,
                                 generated |-> TRUE]
             /\ summary_cache' = IF Cacheable(summary)
                                 THEN Put(summary_cache, symbol, summary)
                                 ELSE summary_cache
    /\ summary_calls' = summary_calls + 1
    /\ UNCHANGED <<gemini_client, requestVars, storeVars, fetcherVars, reportVars,
                   readVars>>

NextSummary ==
    \/ ConfigureGemini
    \/ GetCompanySummary

SpecSummary == Init /\ [][NextSummary]_vars

(***************************************************************************)
(* DataFetcher: get_stock_data and get_realtime_batch                      *)
(***************************************************************************)
\* the most symbols of one get_realtime_batch call
MaxBatch == 2

\* max_retries of the A-share loop
max_retries == 3

\* what a call of an akshare interface gives: an exception, None, a frame
\* without rows, daily bars, or daily bars without a change_pct column
ApiOutcomes == {"raises", "None", "empty", "bars", "bars_no_pct"}

NonEmpty_notnone(frame) == frame # "None"

\* df is not None and not df.empty
NonEmpty(frame) == frame \notin {"None", "empty"}

\* "if attempt > 0": the random wait before a retry
Waits(n) == n > 0

\* the Sina call sits in the except clause of the Eastmoney call
FallsBack(eastmoney) == eastmoney = "raises"

\* what one attempt gives: the Sina result if Sina was called
Got(a) == IF a.sina = "not called" THEN a.eastmoney ELSE a.sina

\* the symbols a batch is asked for
BatchSymbols == {"AAPL", "600519"}

Batches == UNION {[1..n -> BatchSymbols] : n \in 0..MaxBatch}

\* get_stock_info(symbol)['name']: the symbol for a US stock, the short name
\* or the symbol for an A-share
Names(symbol) == IF isdigit(symbol) THEN {symbol, "Kweichow Moutai"} ELSE {symbol}

Placeholder(symbol) == Quote(Zero, Zero, symbol)

Entered_alone(res, symbol, quote) == [x \in {symbol} |-> quote]

\* results[symbol] = quote
Entered(res, symbol, quote) == Put(res, symbol, quote)

\* the "general cleaning" of get_stock_data: None for no frame or an empty
\* one, else the frame
Returned(frame) == IF frame \in {"None", "empty"} THEN "None" ELSE frame

\* get_realtime_batch(symbols): results = {}
GetRealtimeBatch ==
    /\ fetch_pc = "idle"
    /\ batch' \in Batches
    /\ batch_idx' = 1
    /\ results' = << >>
    /\ batch_log' = << >>
    /\ fetch_pc' = "next"
    /\ UNCHANGED <<attempt, fetch_df, attempts, returned, requestVars, storeVars,
                   summaryVars, reportVars,
                   readVars>>

\* the loop over the symbols: get_stock_data(symbol, days=5) begins with
\* df = None; a US stock is fetched with one call, an A-share enters the
\* retry loop
GetStockData ==
    /\ fetch_pc = "next"
    /\ batch_idx <= Len(batch)
    /\ attempts' = << >>
    /\ attempt' = 0
    /\ returned' = ""
    /\ IF isdigit(batch[batch_idx])
       THEN /\ fetch_df' = "None"
            /\ fetch_pc' = "attempt"
       ELSE \E us \in ApiOutcomes :
            IF us = "raises"
            THEN /\ fetch_df' = "None"
                 /\ fetch_pc' = "return None"
            ELSE /\ fetch_df' = us
                 /\ fetch_pc' = "clean"
    /\ UNCHANGED <<batch, batch_idx, results, batch_log, requestVars, storeVars,
                   summaryVars, reportVars,
                   readVars>>

\* "except Exception as e: return None" of the US call
ReturnNone ==
    /\ fetch_pc = "return None"
    /\ returned' = "None"
    /\ fetch_pc' = "entry"
    /\ UNCHANGED <<batch, batch_idx, results, batch_log, attempt, fetch_df, attempts,
                   requestVars, storeVars, summaryVars, reportVars,
                   readVars>>

\* one pass of "for attempt in range(max_retries)"
Attempt ==
    /\ fetch_pc = "attempt"
    /\ attempt < max_retries
    /\ \E eastmoney \in ApiOutcomes, sina \in ApiOutcomes \cup {"not called"} :
        /\ (sina # "not called") <=> FallsBack(eastmoney)
        /\ LET a == [attempt |-> attempt + 1, waited |-> Waits(attempt),
                     eastmoney |-> eastmoney, sina |-> sina]
               raised == Got(a) = "raises"
               stop == ~raised /\ NonEmpty(Got(a))
           IN  /\ attempts' = Append(attempts, a)
               /\ fetch_df' = IF raised
                        THEN (IF attempt = max_retries - 1 THEN "None" ELSE fetch_df)
                        ELSE Got(a)
               /\ IF stop \/ attempt + 1 = max_retries
                  THEN /\ fetch_pc' = "clean"
                       /\ attempt' = attempt
                  ELSE /\ fetch_pc' = "attempt"
                       /\ attempt' = attempt + 1
    /\ UNCHANGED <<batch, batch_idx, results, batch_log, returned, requestVars,
                   storeVars, summaryVars, reportVars,
                   readVars>>

\* after the fetch: the renaming, conversion and date filter of a frame with
\* rows, which may raise or leave no row and which adds change_pct to US
\* bars; then the general cleaning
CleanData ==
    /\ fetch_pc = "clean"
    /\ \E after \in {fetch_df, "empty", "raises"} :
        /\ NonEmpty(fetch_df) \/ after = fetch_df
        /\ returned' =
            IF after = "raises" THEN "None"
            ELSE IF after = "bars_no_pct" /\ ~isdigit(batch[batch_idx])
            THEN "bars"
            ELSE Returned(after)
    /\ fetch_pc' = "entry"
    /\ UNCHANGED <<batch, batch_idx, results, batch_log, attempt, fetch_df, attempts,
                   requestVars, storeVars, summaryVars, reportVars,
                   readVars>>

\* the rest of the loop body of get_realtime_batch: the quote of the last
\* bar, or the placeholder when there is no frame or the body raised
BatchEntry ==
    /\ fetch_pc = "entry"
    /\ LET symbol == batch[batch_idx] IN
       \E quote \in {Placeholder(symbol)} \cup
                    {Quote(Int2F(10), Int2F(25), n) : n \in Names(symbol)} :
        /\ (quote = Placeholder(symbol)) <=> (returned # "bars")
        /\ results' = Entered(results, symbol, quote)
        /\ batch_log' = Append(batch_log,
                               [symbol |-> symbol, returned |-> returned,
                                raised |-> returned = "bars_no_pct",
                                entry |-> quote])
    /\ batch_idx' = batch_idx + 1
    /\ fetch_pc' = "next"
    /\ UNCHANGED <<batch, attempt, fetch_df, attempts, returned, requestVars,
                   storeVars, summaryVars, reportVars,
                   readVars>>

\* return results
BatchReturn ==
    /\ fetch_pc = "next"
    /\ batch_idx > Len(batch)
    /\ fetch_pc' = "returned"
    /\ UNCHANGED <<batch, batch_idx, results, batch_log, attempt, fetch_df, attempts,
                   returned, requestVars, storeVars, summaryVars, reportVars,
                   readVars>>

NextFetcher ==
    \/ GetRealtimeBatch
    \/ GetStockData
    \/ ReturnNone
    \/ Attempt
    \/ CleanData
    \/ BatchEntry
    \/ BatchReturn

SpecFetcher == Init /\ [][NextFetcher]_vars

(***************************************************************************)
(* The report pipeline: AnalystAgent and its two callers                   *)
(***************************************************************************)
\* the roles of the three research sub-tasks, in the order of the calls
Roles == <<"Financial Data Analyst", "Industry Researcher",
           "Corporate Intelligence Specialist">>

\* what _run_research_task returns: the findings, the no-data text, or the
\* text of the exception
NoData(role) == <<"[No data found by ", role, "]">>

SearchError(role) == <<"[Search Error for ", role, ": timed out]">>

RunResearchTask(role) == {<<"findings of ", role>>, NoData(role), SearchError(role)}

\* the final texts of generate_deep_research_report, each with its first 5
\* and its first 11 characters
Leading ==
    [text \in {"# AAPL report", "Error: API Key missing.",
               "Error: Chief Editor produced no text.", "Agent Error: timed out",
               "Errors of the past year", "No Agent Error here"} |->
        CASE text = "# AAPL report" -> <<"# AAP", "# AAPL repo">>
          [] text = "Error: API Key missing." -> <<"Error", "Error: API ">>
          [] text = "Error: Chief Editor produced no text."
                -> <<"Error", "Error: Chie">>
          [] text = "Agent Error: timed out" -> <<"Agent", "Agent Error">>
          [] text = "Errors of the past year" -> <<"Error", "Errors of t">>
          [] text = "No Agent Error here" -> <<"No Ag", "No Agent Er">>]

\* response.text of the synthesis call, its no-text error, or the text of
\* the exception
Synthesized ==
    {"# AAPL report", "Errors of the past year", "No Agent Error here",
     "Error: Chief Editor produced no text.", "Agent Error: timed out"}

IsErrorReport_agent_only(text) == Leading[text][2] = "Agent Error"

\* report_text.startswith("Error") or report_text.startswith("Agent Error")
IsErrorReport(text) ==
    Leading[text][1] = "Error" \/ Leading[text][2] = "Agent Error"

\* the request arrives: the route answers 400 without a symbol; without an
\* API key generate_deep_research_report returns its error at once
StartReport ==
    /\ report_pc = "idle"
    /\ \E p \in {"web", "script"}, symbol \in {"", "AAPL"}, api_key \in BOOLEAN :
        /\ pipeline' = p
        /\ IF p = "web" /\ symbol = ""
           THEN /\ report_pc' = "done"
                /\ report_response' = 400
                /\ report_text' = ""
           ELSE IF ~api_key
           THEN /\ report_pc' = "check"
                /\ report_response' = 0
                /\ report_text' = "Error: API Key missing."
           ELSE /\ report_pc' = "research"
                /\ report_response' = 0
                /\ report_text' = ""
    /\ UNCHANGED <<report_log, research, raw_search_content, pdf_made,
                   documents, requestVars, storeVars, summaryVars, fetcherVars,
                   readVars>>

\* the next of the three _run_research_task calls
ResearchTask ==
    /\ report_pc = "research"
    /\ Len(research) < Len(Roles)
    /\ LET role == Roles[Len(research) + 1] IN
        /\ \E text \in RunResearchTask(role) : research' = Append(research, text)
        /\ report_log' = Append(report_log, role)
    /\ UNCHANGED <<report_pc, pipeline, raw_search_content, report_text,
                   pdf_made, documents, report_response, requestVars, storeVars,
                   summaryVars, fetcherVars,
                   readVars>>

\* phase 2: the prompt holds the three research texts; the Chief Editor call
Synthesis ==
    /\ report_pc = "research"
    /\ Len(research) = Len(Roles)
    /\ raw_search_content' = research
    /\ report_text' \in Synthesized
    /\ report_log' = Append(report_log, "Chief Editor")
    /\ report_pc' = "check"
    /\ UNCHANGED <<pipeline, research, pdf_made, documents, report_response,
                   requestVars, storeVars, summaryVars, fetcherVars,
                   readVars>>

\* the test of the report text in the route and in the script
CheckReport ==
    /\ report_pc = "check"
    /\ IF IsErrorReport(report_text)
       THEN /\ report_pc' = "done"
            /\ report_response' = IF pipeline = "web" THEN 500 ELSE 1
       ELSE /\ report_pc' = "pdf"
            /\ report_response' = report_response
    /\ UNCHANGED <<pipeline, report_log, research, raw_search_content,
                   report_text, pdf_made, documents, requestVars, storeVars,
                   summaryVars, fetcherVars,
                   readVars>>

\* create_markdown_pdf(symbol, report_text), which may raise
CreatePdf ==
    /\ report_pc = "pdf"
    /\ report_log' = Append(report_log, "create_markdown_pdf")
    /\ \E raises \in BOOLEAN :
        IF raises
        THEN /\ pdf_made' = FALSE
             /\ report_pc' = "done"
             /\ report_response' = IF pipeline = "web" THEN 500 ELSE 1
        ELSE /\ pdf_made' = TRUE
             /\ report_pc' = "save"
             /\ report_response' = report_response
    /\ UNCHANGED <<pipeline, research, raw_search_content, report_text,
                   documents, requestVars, storeVars, summaryVars, fetcherVars,
                   readVars>>

\* the route saves the PDF to the knowledge base and answers 200 with the
\* record, or 500 if save_document raised; the script writes a local file
SaveDocument ==
    /\ report_pc = "save"
    /\ report_log' = Append(report_log, "save")
    /\ \E raises \in BOOLEAN :
        IF raises
        THEN /\ documents' = documents
             /\ report_response' = IF pipeline = "web" THEN 500 ELSE 1
        ELSE /\ documents' = IF pipeline = "web"
                             THEN documents \cup {report_text}
                             ELSE documents
             /\ report_response' = IF pipeline = "web" THEN 200 ELSE 0
    /\ report_pc' = "done"
    /\ UNCHANGED <<pipeline, research, raw_search_content, report_text,
                   pdf_made, requestVars, storeVars, summaryVars, fetcherVars,
                   readVars>>

NextReport ==
    \/ StartReport
    \/ ResearchTask
    \/ Synthesis
    \/ CheckReport
    \/ CreatePdf
    \/ SaveDocument

SpecReport == Init /\ [][NextReport]_vars

(***************************************************************************)
(* The read requests on the stored holdings                                *)
(***************************************************************************)
\* the tables and files the read requests are exercised on, as add_stock
\* left them
ReadStores ==
    { << >>,
      <<Record("u1", "AAPL", Int2F(2), Int2F(5), 1)>>,
      <<Record("u1", "AAPL", Int2F(2), Int2F(5), 1),
        Record("u1", "600519", Int2F(10), Int2F(8), 2)>>,
      <<Record("u1", "AAPL", Int2F(1), Int2F(5), 1),
        Record("u2", "600519", Int2F(10), Int2F(8), 2)>> }

\* what get_stock_data gives for a symbol while the requests run
ReadHistories(symbol) ==
    IF symbol = "AAPL"
    THEN {NoneDf, SeriesOf(2, MaxDate, 0, {}, "zig")}
    ELSE {NoneDf, SeriesOf(1, MaxDate, 0, {}, "dip")}

\* the entry get_realtime_batch makes for a symbol while the requests run
ReadQuotes(symbol) ==
    IF symbol = "AAPL"
    THEN {Quote(Zero, Zero, symbol), Quote(Int2F(10), Int2F(25), symbol)}
    ELSE {Quote(Int2F(100), Zero, symbol)}

ReadSymbols == {"AAPL", "600519"}

StoreAfterRead_truncated(rows) == << >>

\* the store after get_portfolio: the select and the open(..., 'r') leave
\* the rows as they are
StoreAfterRead(rows) == rows

RECURSIVE Subtotals(_, _)
\* the six subtotals after the loop over the holdings
Subtotals(hs, rd) ==
    IF hs = << >> THEN ZeroTotals
    ELSE Accumulate(Subtotals(Front(hs), rd), Enrich(Last(hs), rd[Last(hs).symbol]))

\* GET /api/portfolio as a whole: the response for the holdings hs when
\* get_realtime_batch answers rd
OverviewResponse(hs, rd) ==
    IF hs = << >>
    THEN [status |-> 200, body |-> [overview |-> EmptyOverview, holdings |-> << >>]]
    ELSE [status |-> 200,
          body |-> [overview |-> Overview(Subtotals(hs, rd)),
                    holdings |-> [i \in 1..Len(hs) |->
                                     Serialized(Enrich(hs[i], rd[hs[i].symbol]))]]]

\* the rows in the store, the User-ID of the requests and the answers of the
\* fetcher, which stay the same while the requests run
SeedStore ==
    /\ ~world.seeded
    /\ store = << >>
    /\ store' \in ReadStores
    /\ \E user_id \in Users, toNone \in BOOLEAN,
          history \in [ReadSymbols -> UNION {ReadHistories(x) : x \in ReadSymbols}],
          quotes \in [ReadSymbols -> UNION {ReadQuotes(x) : x \in ReadSymbols}] :
        /\ \A x \in ReadSymbols :
              history[x] \in ReadHistories(x) /\ quotes[x] \in ReadQuotes(x)
        /\ world' = [seeded |-> TRUE, rows |-> store', user_id |-> user_id,
                     history |-> history, quotes |-> quotes, toNone |-> toNone]
    /\ UNCHANGED <<readers, use_supabase, primary_key, clock, call, effect,
                   inflight, requestVars, summaryVars, fetcherVars, reportVars>>

\* step 1 of either handler: holdings = portfolio_service.get_portfolio(user_id)
ReadHoldings(r) ==
    /\ world.seeded
    /\ readers[r].pc = "idle"
    /\ \E view \in {"overview", "analysis"} :
        readers' = [readers EXCEPT ![r] =
                       [pc |-> "read", view |-> view,
                        holdings |-> get_portfolio(use_supabase, store, world.user_id),
                        response |-> NoResponse]]
    /\ store' = StoreAfterRead(store)
    /\ UNCHANGED <<world, use_supabase, primary_key, clock, call, effect,
                   inflight, requestVars, summaryVars, fetcherVars, reportVars>>

\* the rest of the handler: the fetches and the computation on the holdings
\* it read
Respond(r) ==
    /\ readers[r].pc = "read"
    /\ readers' = [readers EXCEPT ![r].pc = "done",
                                  ![r].response =
                       IF readers[r].view = "overview"
                       THEN OverviewResponse(readers[r].holdings, world.quotes)
                       ELSE AnalysisResponse(readers[r].holdings, world.history,
                                             world.toNone)]
    /\ UNCHANGED <<world, storeVars, requestVars, summaryVars, fetcherVars,
                   reportVars>>

NextRead ==
    \/ SeedStore
    \/ \E r \in Procs : ReadHoldings(r)
    \/ \E r \in Procs : Respond(r)

SpecRead == Init /\ [][NextRead]_vars

(***************************************************************************)
(* Properties of the alignment step                                        *)
(***************************************************************************)
\* Align has run (it leaves the columns of the join in prices_df)
AlignRan == prices_df.columns # << >>

EmptyInputError == ErrorResponse(500, "Could not fetch historical data")
NoOverlapError  == ErrorResponse(400, "Insufficient overlapping data for analysis")
InsufficientDataError == ErrorResponse(400, "Not enough data points for metrics")

\* the dates on which symbol s has a bar with a close that is not missing
ValidDates(s) == {d \in DOMAIN price_series[s] : ~IsNaN(price_series[s][d])}

AllDates == UNION {DOMAIN price_series[s] : s \in DOMAIN price_series}

SetMax(S) == CHOOSE m \in S : \A x \in S : x <= m

\* the latest of the symbols' first observation dates
LatestStart == SetMax({SetMin(ValidDates(s)) : s \in DOMAIN price_series})

\* C1: a non-empty aligned matrix has, for every fetched symbol, one column as
\* long as the shared, strictly increasing date index, and no missing cell
C1_AlignedMatrixComplete ==
    (AlignRan /\ ~IsEmptyFrame(prices_df)) =>
        /\ Range(prices_df.columns) = DOMAIN price_series
        /\ DOMAIN prices_df.data = DOMAIN price_series
        /\ \A i \in 1..(Len(prices_df.index) - 1) :
                prices_df.index[i] < prices_df.index[i + 1]
        /\ \A s \in DOMAIN prices_df.data :
            /\ Len(prices_df.data[s]) = Len(prices_df.index)
            /\ \A i \in 1..Len(prices_df.index) : ~IsNaN(prices_df.data[s][i])

\* a two-column matrix that lost leading rows and holds a forward-filled cell
C1_Witness ==
    /\ AlignRan
    /\ Len(prices_df.columns) = 2
    /\ Len(prices_df.index) > 0
    /\ Len(prices_df.index) < Cardinality(AllDates)
    /\ \E s \in DOMAIN price_series : \E i \in 1..Len(prices_df.index) :
            prices_df.index[i] \notin ValidDates(s)

\* some fetched symbol shares no date with the other fetched symbols
DisjointDates ==
    \E s \in DOMAIN price_series :
        /\ DOMAIN price_series \ {s} # {}
        /\ DOMAIN price_series[s] \cap
             UNION {DOMAIN price_series[t] : t \in DOMAIN price_series \ {s}} = {}

\* C2: when a symbol's dates are disjoint from the other symbols' dates the
\* alignment ends in the NoOverlap error and never in a matrix
C2_DisjointIsNoOverlap ==
    (AlignRan /\ DisjointDates) =>
        /\ IsEmptyFrame(prices_df)
        /\ response = NoOverlapError

\* C3: the aligned index is the dates of the union on or after the latest
\* first observation, and a cell holds the symbol's close of its most recent
\* observation on or before the row's date
C3_AlignedIsForwardFill ==
    (AlignRan /\ ~IsEmptyFrame(prices_df)) =>
        /\ \A s \in DOMAIN price_series : ValidDates(s) # {}
        /\ prices_df.index = SortedSeq({d \in AllDates : d >= LatestStart})
        /\ \A s \in DOMAIN price_series : \A i \in 1..Len(prices_df.index) :
                prices_df.data[s][i] =
                    price_series[s][SetMax({d \in ValidDates(s) : d <= prices_df.index[i]})]

\* a matrix whose first rows were dropped and that has a row, after a later
\* row of the join's first column, on which some symbol has no observation
C3_Witness ==
    /\ AlignRan
    /\ Len(prices_df.index) > 1
    /\ LatestStart > SetMin(AllDates)
    /\ \E s \in DOMAIN price_series : \E i \in 2..Len(prices_df.index) :
            prices_df.index[i] \notin ValidDates(s)

(***************************************************************************)
(* Properties of the value curve and the metrics                           *)
(***************************************************************************)
Scenario == <<Holding("A", 10, Zero), Holding("B", 1, Zero)>>

Done == pc = "done" /\ route = "analysis"

Succeeded == Done /\ response.status = 200

\* the value curve has been computed
ValueRan == portfolio_value # << >>

\* close * shares summed over the fetched symbols, on row i of the matrix
RECURSIVE RowValue(_, _)
RowValue(S, i) ==
    IF S = {} THEN Zero
    ELSE LET s == CHOOSE x \in S : TRUE
         IN  FAdd(FMul(prices_df.data[s][i], Int2F(shares_map[s])),
                  RowValue(S \ {s}, i))

\* C4 as stated: for the scenario the analysis yields the values
\* [200, 200, 215, 235] and a total return of 17.5%
C4_ScenarioYieldsTotalReturn ==
    (Done /\ holdings = Scenario) =>
        /\ response.status = 200
        /\ [i \in 1..Len(response.body.chart_data) |-> response.body.chart_data[i].value]
             = <<Int2F(200), Int2F(200), Int2F(215), Int2F(235)>>
        /\ response.body.metrics.total_return_pct = Q(35, 2)

\* C4 amended: the value on each aligned date is the sum of close * shares;
\* a returned total return is value[last] / value[first] - 1; the scenario has
\* the value curve [200, 200, 215, 235], whose last / first - 1 is 17.5%, and
\* with 3 return observations it is answered by the InsufficientData error
C4_ValueCurveAndTotalReturn ==
    /\ ValueRan =>
        /\ Len(portfolio_value) = Len(prices_df.index)
        /\ \A i \in 1..Len(portfolio_value) :
                portfolio_value[i] = RowValue(DOMAIN shares_map, i)
    /\ Succeeded =>
        /\ Len(response.body.chart_data) = Len(portfolio_value)
        /\ \A i \in 1..Len(portfolio_value) :
                response.body.chart_data[i].value = portfolio_value[i]
        /\ response.body.metrics.total_return_pct =
                FMul(FSub(FDiv(Last(portfolio_value), portfolio_value[1]), One), Hundred)
    /\ (Done /\ holdings = Scenario) =>
        /\ portfolio_value = <<Int2F(200), Int2F(200), Int2F(215), Int2F(235)>>
        /\ FMul(TotalReturn(portfolio_value), Hundred) = Q(35, 2)
        /\ Len(returns) = 3
        /\ response = InsufficientDataError

C4_Witness ==
    /\ Done
    /\ holdings = Scenario
    /\ portfolio_value = <<Int2F(200), Int2F(200), Int2F(215), Int2F(235)>>

\* C5: the InsufficientData error is returned exactly when the matrix has
\* fewer than 11 rows (fewer than 10 returns); otherwise metrics are returned
\* and period_days is the number of returns, at least 10
C5_InsufficientDataFloor ==
    Done =>
        /\ response = InsufficientDataError <=>
                (ValueRan /\ Len(prices_df.index) < 11)
        /\ response = InsufficientDataError => Len(returns) < 10
        /\ (ValueRan /\ Len(prices_df.index) >= 11) =>
                /\ response.status = 200
                /\ response.body.period_days = Len(prices_df.index) - 1
                /\ response.body.period_days = Len(returns)
                /\ response.body.period_days >= 10

\* metrics returned on exactly 10 return observations
C5_Witness == Succeeded /\ response.body.period_days = 10 /\ Len(prices_df.index) = 11

\* C6: of the requests that reach the fetch loop, EmptyInput answers exactly
\* those with no fetched series and NoOverlap exactly those with a fetched
\* series and an aligned matrix of zero rows; both are errors, never a result
C6_EmptyInputVersusNoOverlap ==
    (Done /\ holdings # << >>) =>
        /\ response = EmptyInputError <=> DOMAIN price_series = {}
        /\ response = NoOverlapError <=>
                (DOMAIN price_series # {} /\ AlignRan /\ Len(prices_df.index) = 0)
        /\ response \in {EmptyInputError, NoOverlapError} =>
                /\ response.status # 200
                /\ DOMAIN response.body = {"error"}
        /\ EmptyInputError # NoOverlapError

\* a fetched series whose alignment has no row
C6_Witness ==
    /\ Done
    /\ response = NoOverlapError
    /\ DOMAIN price_series # {}

\* value j is below the value of an earlier position
BelowEarlierPeak(pv) ==
    \E i \in 1..Len(pv) : \E j \in (i + 1)..Len(pv) : QLess(pv[j], pv[i])

NonDecreasing(pv) ==
    \A i \in 1..(Len(pv) - 1) : QLeq(pv[i], pv[i + 1])

\* the drop from the highest earlier-or-same value to value j, over that value
DropAt(pv, j) ==
    LET peak == CHOOSE x \in {pv[i] : i \in 1..j} :
                    \A y \in {pv[i] : i \in 1..j} : QLeq(y, x)
    IN  FDiv(FSub(pv[j], peak), peak)

\* C7: the returned max drawdown is the least of the drops from the running
\* peak; it is never positive, it is 0 on a non-decreasing value curve and
\* negative as soon as a value lies below an earlier one
C7_MaxDrawdownSign ==
    Succeeded =>
        LET mdd == response.body.metrics.max_drawdown_pct
        IN  /\ IsQ(mdd)
            /\ mdd.n <= 0
            /\ \A j \in 1..Len(portfolio_value) :
                    QLeq(mdd, FMul(DropAt(portfolio_value, j), Hundred))
            /\ \E j \in 1..Len(portfolio_value) :
                    mdd = FMul(DropAt(portfolio_value, j), Hundred)
            /\ NonDecreasing(portfolio_value) => mdd = Zero
            /\ BelowEarlierPeak(portfolio_value) => mdd.n < 0

\* a curve that rises after its drawdown: the minimum is not at the end
C7_Witness ==
    /\ Succeeded
    /\ response.body.metrics.max_drawdown_pct.n < 0
    /\ QLess(portfolio_value[1], Last(portfolio_value))

\* C8: a volatility of exactly 0 gives a Sharpe ratio of exactly 0
C8_SharpeZeroAtZeroVolatility ==
    Succeeded =>
        (response.body.metrics.volatility_pct = Zero =>
            response.body.metrics.sharpe_ratio = Zero)

\* zero volatility with a non-zero annualized return
C8_Witness ==
    /\ Succeeded
    /\ response.body.metrics.volatility_pct = Zero
    /\ response.body.metrics.annual_return_pct # Zero
    /\ response.body.metrics.sharpe_ratio = Zero

\* neither NaN nor Infinity
Clean(x) == ~IsNaN(x) /\ ~IsInf(x)

AnalysisPayloadClean(b) ==
    /\ \A m \in DOMAIN b.metrics : Clean(b.metrics[m])
    /\ \A i \in 1..Len(b.chart_data) : Clean(b.chart_data[i].value)
    /\ \A i \in 1..Len(b.correlation.matrix) :
            \A j \in 1..Len(b.correlation.matrix[i]) : Clean(b.correlation.matrix[i][j])

OverviewFloats == {"total_market_value", "total_cost", "total_pl", "total_pl_pct", "day_pl"}

HoldingFloats ==
    {"cost_basis", "current_price", "market_value", "unrealized_pl",
     "unrealized_pl_pct", "day_change_pct", "day_pl"}

OverviewPayloadClean(b) ==
    /\ \A f \in OverviewFloats : Clean(b.overview[f])
    /\ \A i \in 1..Len(b.holdings) : \A f \in HoldingFloats : Clean(b.holdings[i][f])

\* C9: no number of a serialized analysis or overview payload is NaN or
\* Infinity
C9_NoNonFiniteInPayload ==
    (pc = "done" /\ response.status = 200) =>
        IF route = "analysis" THEN AnalysisPayloadClean(response.body)
        ELSE OverviewPayloadClean(response.body)

\* the returns of column s of the aligned matrix are all equal
ZeroVariance(s) ==
    LET col == prices_df.data[s]
    IN  \A i \in 2..(Len(col) - 1) :
            FDiv(col[i + 1], col[i]) = FDiv(col[2], col[1])

\* C10: a correlation entry of a symbol with zero return variance is null;
\* the other entries are numbers, and 1 on the diagonal
C10_UndefinedCorrelationIsNull ==
    Succeeded =>
        LET syms == response.body.correlation.symbols
            m    == response.body.correlation.matrix
        IN  /\ syms = prices_df.columns
            /\ Len(m) = Len(syms)
            /\ \A i \in 1..Len(syms) :
                /\ Len(m[i]) = Len(syms)
                /\ \A j \in 1..Len(syms) :
                    IF ZeroVariance(syms[i]) \/ ZeroVariance(syms[j])
                    THEN m[i][j] = Null
                    ELSE /\ IsNumber(m[i][j])
                         /\ i = j => m[i][j] = One

\* a matrix with a null entry next to a diagonal 1
C10_Witness ==
    /\ Succeeded
    /\ Len(response.body.correlation.symbols) = 2
    /\ response.body.correlation.matrix[1][1] = Null
    /\ response.body.correlation.matrix[1][2] = Null
    /\ response.body.correlation.matrix[2][2] = One

(***************************************************************************)
(* Properties of the overview                                              *)
(***************************************************************************)
\* the overview handler is in or past its loop over a non-empty portfolio
InLoop == route = "overview" /\ pc \in {"enrich", "compute", "done"} /\ holdings # << >>

\* the overview handler has answered for a non-empty portfolio
OverviewDone == route = "overview" /\ pc = "done" /\ holdings # << >>

AllDigits(symbol) == \A i \in 1..Len(Spelling[symbol]) : Spelling[symbol][i] \in Digits

\* a value of an enriched holding; its cost value is cost basis times shares
Field(e, field) ==
    IF field = "cost_value" THEN FMul(e.cost_basis, Int2F(e.shares)) ELSE e[field]

\* the sum of one value over the enriched holdings of one currency
RECURSIVE Subtotal(_, _, _)
Subtotal(es, currency, field) ==
    IF es = << >> THEN Zero
    ELSE LET rest == Subtotal(Front(es), currency, field)
         IN  IF Last(es).currency = currency THEN FAdd(rest, Field(Last(es), field))
             ELSE rest

\* C11: every holding the loop has handled names exactly one currency, CNY
\* for a digits-only symbol and USD for any other, and each currency's three
\* subtotals are the sums of market value, cost value and day P&L over the
\* holdings of that currency alone, each holding counted once
C11_OneBucketPerHolding ==
    InLoop =>
        /\ Len(enriched_holdings) = idx - 1
        /\ \A i \in 1..Len(enriched_holdings) :
            /\ enriched_holdings[i].symbol = holdings[i].symbol
            /\ enriched_holdings[i].currency =
                   IF AllDigits(holdings[i].symbol) THEN "CNY" ELSE "USD"
        /\ totals.total_mv_usd = Subtotal(enriched_holdings, "USD", "market_value")
        /\ totals.total_cost_usd = Subtotal(enriched_holdings, "USD", "cost_value")
        /\ totals.total_day_pl_usd = Subtotal(enriched_holdings, "USD", "day_pl")
        /\ totals.total_mv_cny = Subtotal(enriched_holdings, "CNY", "market_value")
        /\ totals.total_cost_cny = Subtotal(enriched_holdings, "CNY", "cost_value")
        /\ totals.total_day_pl_cny = Subtotal(enriched_holdings, "CNY", "day_pl")

\* a two-currency portfolio has been through the loop, with a market value,
\* a cost value and a day P&L other than zero on either side
C11_Witness ==
    /\ OverviewDone
    /\ \E i, j \in 1..Len(enriched_holdings) :
        /\ enriched_holdings[i].currency = "USD"
        /\ enriched_holdings[j].currency = "CNY"
        /\ \A k \in {i, j} : \A f \in {"market_value", "cost_value", "day_pl"} :
            LET v == Field(enriched_holdings[k], f) IN IsQ(v) /\ v.n # 0

\* C12: each consolidated total is the USD subtotal plus the CNY subtotal
\* divided by 7.1, the total P&L is consolidated market value minus
\* consolidated cost, and CNY 1000 with USD 100 of market value consolidate
\* to 100 + 1000/7.1 = 17100/71, about 240.85
C12_ConsolidatedTotals ==
    OverviewDone =>
        LET o    == response.body.overview
            es   == response.body.holdings
            In(field) == FAdd(Subtotal(es, "USD", field),
                              FDiv(Subtotal(es, "CNY", field), Q(71, 10)))
        IN  /\ o.total_market_value = In("market_value")
            /\ o.total_cost = In("cost_value")
            /\ o.day_pl = In("day_pl")
            /\ o.total_pl = FSub(o.total_market_value, o.total_cost)
            /\ (/\ Subtotal(es, "CNY", "market_value") = Int2F(1000)
                /\ Subtotal(es, "USD", "market_value") = Int2F(100))
               => /\ o.total_market_value = Q(17100, 71)
                  /\ QLess(Q(24084, 100), o.total_market_value)
                  /\ QLess(o.total_market_value, Q(24086, 100))

\* the scenario: one CNY holding worth 1000 and one USD holding worth 100
C12_Witness ==
    /\ OverviewDone
    /\ Len(response.body.holdings) = 2
    /\ Subtotal(response.body.holdings, "CNY", "market_value") = Int2F(1000)
    /\ Subtotal(response.body.holdings, "USD", "market_value") = Int2F(100)
    /\ response.body.overview.total_market_value = Q(17100, 71)

IsZero(x) == IsQ(x) /\ x.n = 0

\* C13: the overview answers with status 200; its total P&L percentage is 0
\* when the consolidated cost is zero, and a holding's unrealized P&L
\* percentage is 0 when its cost value is zero
C13_ZeroCostGivesZeroPercent ==
    (route = "overview" /\ pc = "done") =>
        /\ response.status = 200
        /\ IsZero(response.body.overview.total_cost)
              => response.body.overview.total_pl_pct = Zero
        /\ \A i \in 1..Len(response.body.holdings) :
              LET e == response.body.holdings[i]
              IN  IsZero(Field(e, "cost_value")) => e.unrealized_pl_pct = Zero

\* a single holding of 5 shares at cost basis 0 with a market value
C13_Witness ==
    /\ OverviewDone
    /\ Len(response.body.holdings) = 1
    /\ response.body.holdings[1].shares = 5
    /\ response.body.holdings[1].cost_basis = Zero
    /\ ~IsZero(response.body.holdings[1].market_value)
    /\ IsZero(response.body.overview.total_cost)
    /\ response.body.overview.total_pl_pct = Zero

\* C14: a holding's day P&L is (price - previous close) x shares, where the
\* previous close is price / (1 + pct/100), or the price itself when
\* 1 + pct/100 is zero; on a -100% day the day P&L is 0 and the request
\* answers with status 200
C14_PreviousCloseAndDayPl ==
    OverviewDone =>
        /\ response.status = 200
        /\ \A i \in 1..Len(response.body.holdings) :
              LET e      == response.body.holdings[i]
                  factor == FAdd(One, FDiv(e.day_change_pct, Int2F(100)))
                  prev   == IF IsZero(factor) THEN e.current_price
                            ELSE FDiv(e.current_price, factor)
              IN  /\ e.day_pl = FMul(FSub(e.current_price, prev), Int2F(e.shares))
                  /\ (e.day_change_pct = Int2F(-100) /\ IsNumber(e.current_price))
                        => e.day_pl = Zero

\* a holding with shares and a price on a -100% day, and one on a +25% day
\* whose day P&L is 2 a share
C14_Witness ==
    /\ OverviewDone
    /\ \E i, j \in 1..Len(response.body.holdings) :
        /\ response.body.holdings[i].day_change_pct = Int2F(-100)
        /\ response.body.holdings[i].shares > 0
        /\ response.body.holdings[i].current_price = Int2F(10)
        /\ response.body.holdings[i].day_pl = Zero
        /\ response.body.holdings[j].day_change_pct = Int2F(25)
        /\ response.body.holdings[j].day_pl = Int2F(2 * response.body.holdings[j].shares)
        /\ response.body.holdings[j].shares > 0

(***************************************************************************)
(* Properties of the holdings store                                        *)
(***************************************************************************)
\* a symbol without regard to case
Folded(symbol) == IF symbol = "aapl" THEN "AAPL" ELSE symbol

StoredSymbols == {Folded(s) : s \in SymbolInputs}

\* where the records of a key are in a list
Positions(rows, user_id, symbol) ==
    {i \in 1..Len(rows) : rows[i].user_id = user_id /\ rows[i].symbol = symbol}

\* the records of a key
Held(rows, user_id, symbol) == {rows[i] : i \in Positions(rows, user_id, symbol)}

\* the call that has just returned was a successful add or update
Added(c) == c.op = "add_stock" /\ c.status = "success"

\* the call that has just returned was a successful remove
Removed(c) == c.op = "remove_stock" /\ c.status = "success"

\* C15, on the local file: whatever call is made next, the store then holds
\* at most one record per (owner, symbol); after a successful add or update
\* the record of its key carries the shares and cost basis of that call; and
\* the records of every other key are what they were before the call
C15_OneRecordPerKey ==
    [][ ~use_supabase =>
        /\ \A u \in Users, s \in StoredSymbols :
            Cardinality(Positions(store', u, s)) <= 1
        /\ Added(call') =>
            \E r \in Held(store', call'.user_id, Folded(call'.symbol)) :
                /\ r.shares = safe_shares(call'.quantity)
                /\ r.cost_basis = call'.cost_basis
        /\ \A u \in Users, s \in StoredSymbols :
            (<<u, s>> # <<call'.user_id, Folded(call'.symbol)>>)
                => Held(store', u, s) = Held(store, u, s) ]_vars

\* what get_portfolio(owner) returns on a store
View(rows, user_id) == get_portfolio(use_supabase, rows, user_id)

\* C16: in either storage mode get_portfolio(owner) returns only records of
\* that owner, and a call by one owner leaves what get_portfolio returns to
\* every other owner as it was
C16_OwnerIsolation ==
    [][ \A u \in Users :
          /\ \A i \in 1..Len(View(store', u)) : View(store', u)[i].user_id = u
          /\ call'.user_id # u => View(store', u) = View(store, u) ]_vars

\* a list of records without the time of their last write
Strip(rows) ==
    [i \in 1..Len(rows) |-> [f \in DOMAIN rows[i] \ {"updated_at"} |-> rows[i][f]]]

\* the store after one whole call on it
Applied(rows, c) ==
    IF c.op = "add_stock"
    THEN add_stock(use_supabase, primary_key, rows, c.user_id, c.symbol,
                   c.quantity, c.cost_basis, 0, FALSE).store
    ELSE remove_stock(use_supabase, rows, c.user_id, c.symbol, FALSE).store

\* the stores the calls of the requests in S leave when made one after the
\* other on rows, in every order
RECURSIVE SerialOutcomes(_, _)
SerialOutcomes(S, rows) ==
    IF S = {} THEN {rows}
    ELSE UNION {SerialOutcomes(S \ {p}, Applied(rows, inflight[p].call)) : p \in S}

Answered == {p \in Procs : inflight[p].pc = "done"}

Others(rows, symbol) == SelectSeq(rows, LAMBDA r : r.symbol # symbol)

C20_SharesNonNegativeInteger ==
    \A i \in 1..Len(store) : store[i].shares \in Nat

(***************************************************************************)
(* Properties of the fetch loop of the analysis                            *)
(***************************************************************************)
\* the analysis handler is past its loop over the holdings
PastFetch == route = "analysis" /\ (pc \in {"align", "value", "metrics", "done"}) /\ holdings # << >>

\* the symbols whose fetch gave no history
FailedSymbols ==
    {s \in fetched : s \notin DOMAIN price_series \/ price_series[s] = NoneDf}

\* what get_stock_data answered in this request
Answers ==
    [s \in fetched |-> IF s \in FailedSymbols THEN NoneDf ELSE price_series[s]]

\* the holdings without those whose fetch failed
Remaining == SelectSeq(holdings, LAMBDA h : h.symbol \notin FailedSymbols)

NoDataError == ErrorResponse(500, "Could not fetch historical data")

\* C21: a symbol whose fetch failed is in neither the aligner's input nor the
\* shares map; when some fetch gave a history the request answers as it does
\* for the holdings without the failed symbols, and it answers with the
\* no-data error only when no fetch gave a history
C21_FailedFetchIsLeftOut ==
    PastFetch =>
        /\ FailedSymbols \cap DOMAIN price_series = {}
        /\ FailedSymbols \cap DOMAIN shares_map = {}
        /\ FailedSymbols \cap Range(columns) = {}
        /\ pc = "done" =>
            /\ (fetched # FailedSymbols) =>
                  response \in {AnalysisResponse(Remaining, Answers, t) : t \in BOOLEAN}
            /\ (response = NoDataError) <=> (fetched = FailedSymbols)

\* one of two fetches failed and the analysis of the other symbol succeeded
C21_Witness ==
    /\ PastFetch /\ pc = "done"
    /\ Len(holdings) = 2
    /\ Cardinality(fetched) = 2
    /\ Cardinality(FailedSymbols) = 1
    /\ response.status = 200
    /\ Len(response.body.correlation.symbols) = 1

(***************************************************************************)
(* Properties of the summary cache                                         *)
(***************************************************************************)
\* C26: no entry of the summary cache is one of the failure strings of
\* _fetch_gemini_summary
C26_NoFailureInCache ==
    \A s \in DOMAIN summary_cache : summary_cache[s] \notin FailureStrings

C22_PartialFailureNote ==
    (PastFetch /\ pc = "done" /\ FailedSymbols # {}) =>
        \E f \in DOMAIN response.body :
            f \notin {"error", "metrics", "chart_data", "correlation", "period_days"}

(***************************************************************************)
(* Properties of the alignment as a function                               *)
(***************************************************************************)
Reverse(seq) == [i \in 1..Len(seq) |-> seq[Len(seq) + 1 - i]]

\* the columns of a matrix as per-symbol series: date -> close
SeriesOfFrame(df) ==
    [s \in Range(df.columns) |->
        [d \in Range(df.index) |->
            df.data[s][CHOOSE i \in 1..Len(df.index) : df.index[i] = d]]]

\* the analysis handler has aligned
Aligned == route = "analysis" /\ prices_df.columns # << >>

\* C24: aligning the fetched series again gives the matrix the handler has;
\* aligning them in the other column order gives the same dates and the same
\* cells; and aligning the columns of the matrix gives the matrix
C24_AlignmentIdempotent ==
    Aligned =>
        /\ AlignPrices(columns, price_series) = prices_df
        /\ LET other == AlignPrices(Reverse(columns), price_series)
           IN  /\ other.index = prices_df.index
               /\ Range(other.columns) = Range(prices_df.columns)
               /\ other.data = prices_df.data
        /\ AlignPrices(prices_df.columns, SeriesOfFrame(prices_df)) = prices_df

\* two series with different dates, one of them with a gap that was filled,
\* were aligned to a matrix shorter than either
C24_Witness ==
    /\ Aligned
    /\ Len(columns) = 2
    /\ DOMAIN price_series[columns[1]] # DOMAIN price_series[columns[2]]
    /\ \E s \in Range(columns) : \E d \in Range(prices_df.index) :
           d \notin DOMAIN price_series[s]
    /\ Len(prices_df.index) > 0
    /\ \A s \in Range(columns) :
           Len(prices_df.index) < Cardinality(DOMAIN price_series[s]) + 1

(***************************************************************************)
(* Properties of holdings without shares                                   *)
(***************************************************************************)
\* the symbols of the holdings the loop has passed whose shares are zero or
\* negative
Shareless ==
    {holdings[i].symbol : i \in {j \in 1..Len(holdings) :
                                    j < idx /\ holdings[j].shares <= 0}}

\* C25: a holding with zero or negative shares is not fetched and is no key
\* of the aligner's input, no column of the aligned matrix and no symbol of
\* the correlation
C25_SharelessHoldingsStayOut ==
    route = "analysis" =>
        /\ Shareless \cap fetched = {}
        /\ Shareless \cap DOMAIN price_series = {}
        /\ Shareless \cap DOMAIN shares_map = {}
        /\ Shareless \cap Range(columns) = {}
        /\ Shareless \cap Range(prices_df.columns) = {}
        /\ (pc = "done" /\ response.status = 200)
              => Shareless \cap Range(response.body.correlation.symbols) = {}

\* a portfolio with a zero-share holding was analysed on its other symbol
C25_Witness ==
    /\ route = "analysis" /\ pc = "done"
    /\ response.status = 200
    /\ \E i \in 1..Len(holdings) : holdings[i].shares = 0
    /\ Shareless # {}
    /\ Len(response.body.correlation.symbols) = 1


(***************************************************************************)
(* Properties of the data fetcher                                          *)
(***************************************************************************)
\* an attempt that gave a frame with rows
Yields(a) == Got(a) \notin {"raises", "None", "empty"}

\* the retry loop of the current get_stock_data call is over
LoopOver == fetch_pc \in {"clean", "entry"} /\ attempts # << >>

\* C28: the A-share loop makes at most 3 attempts and none after the first
\* that gave a frame with rows; within an attempt Sina is called only after
\* the Eastmoney call raised; a wait comes before attempts 2 and 3 only; and
\* get_stock_data returns None or a frame with rows
C28_RetryLoop ==
    /\ Len(attempts) <= 3
    /\ \A i \in 1..Len(attempts) :
        /\ attempts[i].attempt = i
        /\ (attempts[i].sina # "not called") => attempts[i].eastmoney = "raises"
        /\ attempts[i].waited <=> i \in {2, 3}
        /\ i < Len(attempts) => ~Yields(attempts[i])
    /\ LoopOver => (Len(attempts) = 3 \/ Yields(attempts[Len(attempts)]))
    /\ returned \in {"", "None", "bars", "bars_no_pct"}

\* two failed attempts, the second through the Sina fallback, and a third
\* that gave bars, which get_stock_data returned
C28_Witness ==
    /\ Len(attempts) = 3
    /\ attempts[1].eastmoney = "empty"
    /\ attempts[2].eastmoney = "raises" /\ attempts[2].sina = "raises"
    /\ attempts[3].eastmoney = "raises" /\ attempts[3].sina = "bars"
    /\ returned = "bars"

\* the last record of the log for a symbol
LastOf(symbol) ==
    LET I == {i \in 1..Len(batch_log) : batch_log[i].symbol = symbol}
    IN  batch_log[CHOOSE i \in I : \A j \in I : j <= i]

\* C29: the results of get_realtime_batch have an entry for every symbol
\* done so far and for no other, each the entry made when that symbol was
\* last fetched, which is the placeholder when its fetch gave nothing or
\* raised; the batch returns with exactly the requested symbols
C29_OneEntryPerSymbol ==
    /\ DOMAIN results = {batch_log[i].symbol : i \in 1..Len(batch_log)}
    /\ DOMAIN results \subseteq Range(batch)
    /\ \A s \in DOMAIN results :
        /\ results[s] = LastOf(s).entry
        /\ (LastOf(s).returned = "None" \/ LastOf(s).raised)
              => results[s] = Placeholder(s)
    /\ fetch_pc = "returned" => DOMAIN results = Range(batch)

\* a batch of two symbols returned: the fetch of the first gave bars, the
\* fetch of the second failed in all three attempts
C29_Witness ==
    /\ fetch_pc = "returned"
    /\ batch = <<"AAPL", "600519">>
    /\ results["AAPL"] = Quote(Int2F(10), Int2F(25), "AAPL")
    /\ results["600519"] = Placeholder("600519")
    /\ Len(attempts) = 3


(***************************************************************************)
(* Properties of the report pipeline                                       *)
(***************************************************************************)
\* the report text starts with "Error" or with "Agent Error"
ErrorText ==
    report_text \in {"Error: API Key missing.", "Agent Error: timed out",
                     "Error: Chief Editor produced no text.",
                     "Errors of the past year"}

\* the pipeline is past the test of the report text
Tested == report_pc \in {"pdf", "save", "done"} /\ report_text # ""

\* C30: the calls of the pipeline come in the order research 1, 2, 3,
\* synthesis, PDF, save; the synthesis is made once the three sub-tasks have
\* returned, whatever they returned, with their texts as its research
\* content; the PDF is made and the document saved only for a report text
\* that starts with neither "Error" nor "Agent Error", and a request whose
\* text does ends with an error, no PDF and nothing saved
C30_ReportPipeline ==
    /\ \E n \in 0..Len(report_log) :
        report_log = SubSeq(<<Roles[1], Roles[2], Roles[3], "Chief Editor",
                              "create_markdown_pdf", "save">>, 1, n)
    /\ Len(research) = Len(report_log) \/ Len(research) = 3
    /\ (report_pc # "research" /\ Len(research) = 3)
          => (Len(report_log) >= 4 /\ raw_search_content = research)
    /\ (pdf_made \/ documents # {} \/ Len(report_log) > 4)
          => (report_text # "" /\ ~ErrorText)
    /\ (Tested /\ ErrorText)
          => (report_pc = "done" /\ report_response \in {500, 1}
              /\ ~pdf_made /\ documents = {})

\* a request through the route whose second sub-task failed: its error text
\* went into the synthesis, and the report was made into a PDF and saved
C30_Witness ==
    /\ pipeline = "web"
    /\ report_pc = "done"
    /\ report_response = 200
    /\ research[2] = SearchError(Roles[2])
    /\ raw_search_content[2] = SearchError(Roles[2])
    /\ report_text = "No Agent Error here"
    /\ documents = {"No Agent Error here"}


(***************************************************************************)
(* Properties of the read requests                                         *)
(***************************************************************************)
\* the rows of the requests' user among the rows stored
RowsOfUser ==
    IF use_supabase
    THEN SelectSeq(world.rows, LAMBDA row : row.user_id = world.user_id)
    ELSE world.rows

====
